---- MODULE Spec2Model ----
(***************************************************************************)
(* Search query compiler and job matching engine of catalitiumJobs:        *)
(* app/models/db.py (normalisers, Job._where, Job._order_by, Job.search,   *)
(* Job.count, Job.insert_many, _SQLiteCursor) and the /api/jobs handler of *)
(* app/app.py.  Python strings are TLA+ strings; TLC evaluates Len, SubSeq *)
(* and \o on them, so every string operation below is computed character   *)
(* by character as the Python code computes it.                            *)
(***************************************************************************)
EXTENDS Integers, Sequences, FiniteSets, TLC

(* ------------------------------------------------------------------ *)
(* Python str primitives                                               *)
(* ------------------------------------------------------------------ *)

\* s[i] (1-based)
Char(s, i) == SubSeq(s, i, i)

\* s[i:] (1-based, inclusive start)
From(s, i) == SubSeq(s, i, Len(s))

Min(a, b) == IF a < b THEN a ELSE b

Max(a, b) == IF a > b THEN a ELSE b

\* characters in code-point order; the position of a character is its rank
CodePoints ==
    "\t %(),-./0123456789<=>?ABCDEFGHIJKLMNOPQRSTUVWXYZ\\_abcdefghijklmnopqrstuvwxyz¶Ãã"

\* index of the one-character string c in alphabet, 0 when absent
IndexIn(c, alphabet) ==
    IF \E i \in 1..Len(alphabet) : Char(alphabet, i) = c
    THEN CHOOSE i \in 1..Len(alphabet) : Char(alphabet, i) = c
    ELSE 0

\* the lowercase form of each ASCII capital
LowerOf ==
    [A |-> "a", B |-> "b", C |-> "c", D |-> "d", E |-> "e", F |-> "f", G |-> "g",
     H |-> "h", I |-> "i", J |-> "j", K |-> "k", L |-> "l", M |-> "m", N |-> "n",
     O |-> "o", P |-> "p", Q |-> "q", R |-> "r", S |-> "s", T |-> "t", U |-> "u",
     V |-> "v", W |-> "w", X |-> "x", Y |-> "y", Z |-> "z"]

\* the capital of each ASCII lowercase letter
UpperOf ==
    [a |-> "A", b |-> "B", c |-> "C", d |-> "D", e |-> "E", f |-> "F", g |-> "G",
     h |-> "H", i |-> "I", j |-> "J", k |-> "K", l |-> "L", m |-> "M", n |-> "N",
     o |-> "O", p |-> "P", q |-> "Q", r |-> "R", s |-> "S", t |-> "T", u |-> "U",
     v |-> "V", w |-> "W", x |-> "X", y |-> "Y", z |-> "Z"]

\* beyond ASCII the lexical tables hold the letter "Ã", whose lowercase is "ã"
LowerChar(c) == IF c \in DOMAIN LowerOf THEN LowerOf[c] ELSE IF c = "Ã" THEN "ã" ELSE c

UpperChar(c) == IF c \in DOMAIN UpperOf THEN UpperOf[c] ELSE IF c = "ã" THEN "Ã" ELSE c

RECURSIVE Lower(_)
\* str.lower()
Lower(s) == IF s = "" THEN "" ELSE LowerChar(Char(s, 1)) \o Lower(From(s, 2))

RECURSIVE Upper(_)
\* str.upper()
Upper(s) == IF s = "" THEN "" ELSE UpperChar(Char(s, 1)) \o Upper(From(s, 2))

\* str.isalpha()
IsAlpha(s) ==
    /\ s # ""
    /\ \A i \in 1..Len(s) : Char(s, i) \in DOMAIN LowerOf \cup DOMAIN UpperOf \cup {"Ã", "ã"}

\* the whitespace characters of the modelled inputs: the blank and the tab
IsSpace(c) == c \in {" ", "\t"}

RECURSIVE LStrip(_)
LStrip(s) == IF s # "" /\ IsSpace(Char(s, 1)) THEN LStrip(From(s, 2)) ELSE s

RECURSIVE RStrip(_)
RStrip(s) ==
    IF s # "" /\ IsSpace(Char(s, Len(s))) THEN RStrip(SubSeq(s, 1, Len(s) - 1)) ELSE s

\* str.strip()
Strip(s) == RStrip(LStrip(s))

\* sub in s
Contains(s, sub) ==
    \E i \in 1..(Len(s) - Len(sub) + 1) : SubSeq(s, i, i + Len(sub) - 1) = sub

\* s.startswith(prefix)
StartsWith(s, prefix) == Len(prefix) <= Len(s) /\ SubSeq(s, 1, Len(prefix)) = prefix

RECURSIVE Replace(_, _, _)
\* s.replace(old, new) for a non-empty old: leftmost, non-overlapping
Replace(s, old, new) ==
    IF Len(s) < Len(old) THEN s
    ELSE IF StartsWith(s, old) THEN new \o Replace(From(s, Len(old) + 1), old, new)
    ELSE Char(s, 1) \o Replace(From(s, 2), old, new)

RECURSIVE SplitFrom(_, _)
\* s.split(): the maximal blank-free runs of s, cur is the run being read
SplitFrom(s, cur) ==
    IF s = "" THEN (IF cur = "" THEN <<>> ELSE <<cur>>)
    ELSE IF IsSpace(Char(s, 1))
         THEN (IF cur = "" THEN <<>> ELSE <<cur>>) \o SplitFrom(From(s, 2), "")
         ELSE SplitFrom(From(s, 2), cur \o Char(s, 1))

Split(s) == SplitFrom(s, "")

RECURSIVE Join(_, _)
\* sep.join(parts)
Join(sep, parts) ==
    IF parts = <<>> THEN ""
    ELSE IF Len(parts) = 1 THEN parts[1]
    ELSE parts[1] \o sep \o Join(sep, Tail(parts))

RECURSIVE StrLess(_, _)
\* a < b as Python compares str: by code point, a proper prefix first
StrLess(a, b) ==
    IF b = "" THEN FALSE
    ELSE IF a = "" THEN TRUE
    ELSE LET x == IndexIn(Char(a, 1), CodePoints)
             y == IndexIn(Char(b, 1), CodePoints)
         IN  IF x # y THEN x < y ELSE StrLess(From(a, 2), From(b, 2))

RECURSIVE SortedStrings(_)
\* sorted(S) for a set of strings
SortedStrings(S) ==
    IF S = {} THEN <<>>
    ELSE LET m == CHOOSE x \in S : \A y \in S \ {x} : StrLess(x, y)
         IN  <<m>> \o SortedStrings(S \ {m})

\* the elements of a sequence
Range(seq) == {seq[i] : i \in 1..Len(seq)}

\* a sequence without its repeated elements, first occurrences kept
Dedup(seq) ==
    LET indexed == [i \in 1..Len(seq) |-> <<i, seq[i]>>]
        first(p) == \A j \in 1..(p[1] - 1) : seq[j] # p[2]
        kept == SelectSeq(indexed, first)
    IN  [k \in 1..Len(kept) |-> kept[k][2]]

RECURSIVE FlattenSeqs(_)
\* the concatenation of a sequence of sequences
FlattenSeqs(seqs) == IF seqs = <<>> THEN <<>> ELSE Head(seqs) \o FlattenSeqs(Tail(seqs))

\* [Op(x) for x in seq]
MapSeq(Op(_), seq) == [i \in 1..Len(seq) |-> Op(seq[i])]

(* ------------------------------------------------------------------ *)
(* Lexical tables (declaration order kept: dict iteration order)       *)
(* ------------------------------------------------------------------ *)

COUNTRY_NORM ==
    << <<"deutschland", "DE">>, <<"germany", "DE">>, <<"deu", "DE">>, <<"de", "DE">>,
       <<"switzerland", "CH">>, <<"schweiz", "CH">>, <<"suisse", "CH">>, <<"svizzera", "CH">>,
       <<"ch", "CH">>, <<"austria", "AT">>, <<"Ã¶sterreich", "AT">>, <<"at", "AT">>,
       <<"europe", "EU">>, <<"eu", "EU">>, <<"eur", "EU">>, <<"european union", "EU">>,
       <<"uk", "UK">>, <<"gb", "UK">>, <<"england", "UK">>, <<"united kingdom", "UK">>,
       <<"usa", "US">>, <<"united states", "US">>, <<"america", "US">>, <<"us", "US">>,
       <<"spain", "ES">>, <<"es", "ES">>, <<"france", "FR">>, <<"fr", "FR">>,
       <<"italy", "IT">>, <<"it", "IT">>, <<"netherlands", "NL">>, <<"nl", "NL">>,
       <<"belgium", "BE">>, <<"be", "BE">>, <<"sweden", "SE">>, <<"se", "SE">>,
       <<"poland", "PL">>, <<"colombia", "CO">>, <<"mexico", "MX">>, <<"portugal", "PT">>,
       <<"ireland", "IE">>, <<"denmark", "DK">>, <<"finland", "FI">>, <<"greece", "GR">>,
       <<"hungary", "HU">>, <<"romania", "RO">>, <<"slovakia", "SK">>, <<"slovenia", "SI">>,
       <<"bulgaria", "BG">>, <<"croatia", "HR">>, <<"cyprus", "CY">>, <<"czech republic", "CZ">>,
       <<"czechia", "CZ">>, <<"estonia", "EE">>, <<"latvia", "LV">>, <<"lithuania", "LT">>,
       <<"luxembourg", "LU">>, <<"malta", "MT">> >>

LOCATION_COUNTRY_HINTS ==
    << <<"amsterdam", "NL">>, <<"atlanta", "US">>, <<"austin", "US">>, <<"barcelona", "ES">>,
       <<"belgium", "BE">>, <<"berlin", "DE">>, <<"berlin, de", "DE">>, <<"boston", "US">>,
       <<"brussels", "BE">>, <<"budapest", "HU">>, <<"charlotte", "US">>, <<"chicago", "US">>,
       <<"copenhagen", "DK">>, <<"dallas", "US">>, <<"denmark", "DK">>, <<"denver", "US">>,
       <<"dublin", "IE">>, <<"france", "FR">>, <<"frankfurt", "DE">>, <<"germany", "DE">>,
       <<"hamburg", "DE">>, <<"houston", "US">>, <<"italy", "IT">>, <<"lisbon", "PT">>,
       <<"london", "UK">>, <<"los angeles", "US">>, <<"los", "US">>, <<"madrid", "ES">>,
       <<"miami", "US">>, <<"milan", "IT">>, <<"minneapolis", "US">>, <<"munich", "DE">>,
       <<"netherlands", "NL">>, <<"new york", "US">>, <<"oslo", "NO">>, <<"paris", "FR">>,
       <<"philadelphia", "US">>, <<"phoenix", "US">>, <<"pittsburgh", "US">>, <<"portland", "US">>,
       <<"porto", "PT">>, <<"portugal", "PT">>, <<"prague", "CZ">>, <<"raleigh", "US">>,
       <<"salt lake city", "US">>, <<"salt", "US">>, <<"san francisco", "US">>, <<"seattle", "US">>,
       <<"spain", "ES">>, <<"stockholm", "SE">>, <<"switzerland", "CH">>, <<"tallinn", "EE">>,
       <<"uk", "UK">>, <<"vienna", "AT">>, <<"washington", "US">>, <<"zurich", "CH">> >>

TITLE_SYNONYMS ==
    << <<"swe", "software engineer">>, <<"software eng", "software engineer">>, <<"sw eng", "software engineer">>,
       <<"frontend", "front end">>, <<"front-end", "front end">>, <<"backend", "back end">>,
       <<"back-end", "back end">>, <<"fullstack", "full stack">>, <<"full-stack", "full stack">>,
       <<"pm", "product manager">>, <<"prod mgr", "product manager">>, <<"product owner", "product manager">>,
       <<"ds", "data scientist">>, <<"ml", "machine learning">>, <<"mle", "machine learning engineer">>,
       <<"sre", "site reliability engineer">>, <<"devops", "devops">>, <<"sec eng", "security engineer">>,
       <<"infosec", "security">>, <<"programmer", "developer">>, <<"coder", "developer">> >>

(* ------------------------------------------------------------------ *)
(* SQL LIKE with ESCAPE '\'                                            *)
(* ------------------------------------------------------------------ *)

RECURSIVE LikeAt(_, _, _, _, _)
\* does p[i..] match s[j..]: '%' any run, '_' any one character, '\c' the
\* character c itself; ci compares letters without regard to ASCII case
LikeAt(p, s, i, j, ci) ==
    IF i > Len(p) THEN j > Len(s)
    ELSE LET c == Char(p, i)
             same(a, b) == IF ci THEN LowerChar(a) = LowerChar(b) ELSE a = b
         IN  IF c = "%" THEN \E k \in j..(Len(s) + 1) : LikeAt(p, s, i + 1, k, ci)
             ELSE IF c = "_" THEN j <= Len(s) /\ LikeAt(p, s, i + 1, j + 1, ci)
             ELSE IF c = "\\" /\ i < Len(p)
                  THEN /\ j <= Len(s)
                       /\ same(Char(s, j), Char(p, i + 1))
                       /\ LikeAt(p, s, i + 2, j + 1, ci)
             ELSE /\ j <= Len(s)
                  /\ same(Char(s, j), c)
                  /\ LikeAt(p, s, i + 1, j + 1, ci)

\* value LIKE pattern ESCAPE '\'
Like(pattern, value, ci) == LikeAt(pattern, value, 1, 1, ci)

(* ------------------------------------------------------------------ *)
(* Job: pattern generation                                             *)
(* ------------------------------------------------------------------ *)

\* Job._normalize_title
Job_normalize_title(value) == Lower(Strip(value))

\* _escape_like leaving its argument as it is
Job_escape_like_None(value) == value

\* Job._escape_like
Job_escape_like(value) ==
    Replace(Replace(Replace(value, "\\", "\\\\"), "%", "\\%"), "_", "\\_")

seps_before == <<" ", "(", ",", "/", "-">>

seps_after == <<" ", ")", ",", "/", "-">>

_EU_CODES ==
    {"AT", "BE", "BG", "HR", "CY", "CZ", "DK", "EE", "FI", "FR", "DE", "GR", "HU", "IE",
     "IT", "LV", "LT", "LU", "MT", "NL", "PL", "PT", "RO", "SK", "SI", "ES", "SE"}

\* the EU filter codes without NL
EU_FILTER_CODES_NoNL == {"DE", "ES"}

_EU_FILTER_CODES == {"DE", "ES", "NL"}

\* the LIKE patterns one code contributes, in the order add_like receives them
CodePatterns(code) ==
    LET token == Job_escape_like(Lower(code))
        perBefore(b) ==
            [a \in 1..Len(seps_after) |-> "%" \o seps_before[b] \o token \o seps_after[a] \o "%"]
            \o <<"%" \o seps_before[b] \o token>>
    IN  FlattenSeqs([b \in 1..Len(seps_before) |-> perBefore(b)])
        \o (IF Len(code) > 2 THEN <<"%" \o token \o "%">> ELSE <<>>)

\* keys of a table (sequence of <<key, value>>) whose value, uppercased, is in codes
KeysMapped(table, codes) ==
    LET mapped(entry) == Upper(entry[2]) \in codes
        key(entry) == entry[1]
    IN  MapSeq(key, SelectSeq(table, mapped))

SubstringPattern(text) == "%" \o Job_escape_like(text) \o "%"

\* Job._country_patterns: <<patterns, sorted(equals)>>.  The codes are visited
\* in sorted order; Python visits a set in an unspecified order, which only
\* permutes the patterns of the different codes among themselves.
Job_country_patterns(codes) ==
    LET normalized_codes == {Upper(c) : c \in {d \in codes : d # ""}}
        codeSeq == SortedStrings(normalized_codes)
        tokenPatterns == FlattenSeqs([k \in 1..Len(codeSeq) |-> CodePatterns(codeSeq[k])])
        euPattern == IF "EU" \in normalized_codes THEN <<SubstringPattern("eu")>> ELSE <<>>
        aliases == {Lower(a) : a \in {b \in Range(KeysMapped(COUNTRY_NORM, normalized_codes)) :
                                        Len(b) > 2}}
        aliasPatterns == MapSeq(SubstringPattern, SortedStrings(aliases))
        hints == KeysMapped(LOCATION_COUNTRY_HINTS, normalized_codes)
        hintPatterns == MapSeq(SubstringPattern, hints)
        equals == {Lower(c) : c \in normalized_codes} \cup {h \in Range(hints) : Len(h) <= 3}
    IN  << Dedup(tokenPatterns \o euPattern \o aliasPatterns \o hintPatterns),
           SortedStrings(equals) >>


(* ------------------------------------------------------------------ *)
(* Normalisers                                                         *)
(* ------------------------------------------------------------------ *)

\* table.get(key): <<value>> when present, <<>> when not
Lookup(table, key) ==
    LET hit(entry) == entry[1] = key
        found == SelectSeq(table, hit)
    IN  IF found = <<>> THEN <<>> ELSE <<found[1][2]>>

\* the code of the first entry, in declaration order, whose key occurs in t
FirstTokenIn(table, t) ==
    LET hit(entry) == Contains(t, entry[1])
        found == SelectSeq(table, hit)
    IN  IF found = <<>> THEN <<>> ELSE <<found[1][2]>>

\* normalize_country
normalize_country(q) ==
    IF q = "" THEN ""
    ELSE LET t == Lower(Strip(q))
             exact == Lookup(COUNTRY_NORM, t)
             scan == FirstTokenIn(COUNTRY_NORM, t)
         IN  IF exact # <<>> THEN exact[1]
             ELSE IF Len(t) = 2 /\ IsAlpha(t) THEN Upper(t)
             ELSE IF scan # <<>> THEN scan[1]
             ELSE Strip(q)

Digits == "0123456789"

\* \w of the regular expressions
IsWordChar(c) ==
    \/ c \in DOMAIN LowerOf
    \/ c \in DOMAIN UpperOf
    \/ IndexIn(c, Digits) > 0
    \/ c = "_"

RECURSIVE ApplySynonyms(_, _)
\* for k, v in TITLE_SYNONYMS.items(): if k in s: s = s.replace(k, v)
ApplySynonyms(table, s) ==
    IF table = <<>> THEN s
    ELSE ApplySynonyms(Tail(table),
                       IF Contains(s, Head(table)[1])
                       THEN Replace(s, Head(table)[1], Head(table)[2]) ELSE s)

RECURSIVE BlankPunctuation(_)
\* re.sub(r"[^\w\s\-\/]", " ", s)
BlankPunctuation(s) ==
    IF s = "" THEN ""
    ELSE LET c == Char(s, 1)
         IN  (IF IsWordChar(c) \/ IsSpace(c) \/ c = "-" \/ c = "/" THEN c ELSE " ")
             \o BlankPunctuation(From(s, 2))

\* re.sub(r"\s+", " ", s).strip()
CollapseSpaces(s) == Join(" ", Split(s))

\* normalize_title
normalize_title(q) ==
    IF q = "" THEN ""
    ELSE CollapseSpaces(BlankPunctuation(ApplySynonyms(TITLE_SYNONYMS, Lower(q))))

(* ------------------------------------------------------------------ *)
(* Salary extractor                                                    *)
(* ------------------------------------------------------------------ *)

IsDigit(c) == c # "" /\ IndexIn(c, Digits) > 0

\* [\d,.\s]
IsNumberRun(c) == IsDigit(c) \/ c = "," \/ c = "." \/ IsSpace(c)

RECURSIVE RunEnd(_, _)
\* last index of the longest run of [\d,.\s] characters that follows index i
RunEnd(s, i) == IF i < Len(s) /\ IsNumberRun(Char(s, i + 1)) THEN RunEnd(s, i + 1) ELSE i

\* end of the greedy match of (?i)\d[\d,.\s]*k? at the digit s[i]
NumberEnd(s, i) ==
    LET e == RunEnd(s, i)
    IN  IF e < Len(s) /\ Lower(Char(s, e + 1)) = "k" THEN e + 1 ELSE e

RECURSIVE SkipSpaces(_, _)
\* first index at or after i that holds no whitespace
SkipSpaces(s, i) == IF i <= Len(s) /\ IsSpace(Char(s, i)) THEN SkipSpaces(s, i + 1) ELSE i

RECURSIVE DigitsValue(_)
\* int(clean) of a digit string
DigitsValue(d) ==
    IF d = "" THEN 0
    ELSE 10 * DigitsValue(SubSeq(d, 1, Len(d) - 1)) + (IndexIn(Char(d, Len(d)), Digits) - 1)

RECURSIVE RStripK(_)
\* clean.rstrip("k")
RStripK(s) == IF s # "" /\ Char(s, Len(s)) = "k" THEN RStripK(SubSeq(s, 1, Len(s) - 1)) ELSE s

\* parse_money_numbers taking the characters left for digits without a test
parse_money_numbers_Unchecked(raw) ==
    LET lowered == Replace(Replace(Lower(raw), ",", ""), " ", "")
        mult == IF lowered # "" /\ Char(lowered, Len(lowered)) = "k" THEN 1000 ELSE 1
    IN  IF raw = "" THEN <<>> ELSE <<DigitsValue(Replace(RStripK(lowered), ".", "")) * mult>>

\* parse_money_numbers applied to one group of a match: the group is a
\* single greedy match of the number pattern, so findall yields it alone
parse_money_numbers(raw) ==
    LET lowered == Replace(Replace(Lower(raw), ",", ""), " ", "")
        mult == IF lowered # "" /\ Char(lowered, Len(lowered)) = "k" THEN 1000 ELSE 1
        clean == Replace(RStripK(lowered), ".", "")
        isdigit == clean # "" /\ \A i \in 1..Len(clean) : IsDigit(Char(clean, i))
    IN  IF raw = "" THEN <<>> ELSE IF isdigit THEN <<DigitsValue(clean) * mult>> ELSE <<>>

\* vals[0] if vals else None; None is the empty sequence
FirstOrNone(vals) == IF vals = <<>> THEN <<>> ELSE <<vals[1]>>

\* [-\u2013]; the en dash is outside the modelled alphabet
Dashes == {"-"}

\* a range pattern that matches nowhere
RangeAt_None(s, i) == <<>>

\* span of the range pattern starting at i: <<start, end, g1end, g2start>> or <<>>
RangeAt(s, i) ==
    IF ~IsDigit(Char(s, i)) THEN <<>>
    ELSE LET e1 == NumberEnd(s, i)
             dash == SkipSpaces(s, e1 + 1)
             q == SkipSpaces(s, dash + 1)
         IN  IF dash <= Len(s) /\ Char(s, dash) \in Dashes /\ q <= Len(s) /\ IsDigit(Char(s, q))
             THEN <<i, NumberEnd(s, q), e1, q>> ELSE <<>>

\* span of ">\s*=?\s*(number)" (or "<") starting at i: <<start, end, gstart>> or <<>>
BoundAt(s, i, sign) ==
    IF Char(s, i) # sign THEN <<>>
    ELSE LET a == SkipSpaces(s, i + 1)
             b == IF a <= Len(s) /\ Char(s, a) = "=" THEN SkipSpaces(s, a + 1) ELSE a
         IN  IF b <= Len(s) /\ IsDigit(Char(s, b)) THEN <<i, NumberEnd(s, b), b>>
             ELSE IF a <= Len(s) /\ IsDigit(Char(s, a)) THEN <<i, NumberEnd(s, a), a>>
             ELSE <<>>

\* span of the bare number pattern starting at i
SingleAt(s, i) == IF IsDigit(Char(s, i)) THEN <<i, NumberEnd(s, i), i>> ELSE <<>>

\* re.search: the match at the leftmost index that has one, <<>> when none
Search(At(_, _), s) ==
    LET hits == {i \in 1..Len(s) : At(s, i) # <<>>}
    IN  IF hits = {} THEN <<>> ELSE At(s, CHOOSE i \in hits : \A h \in hits : i <= h)

\* (s[:m.start()] + s[m.end():]).strip()
Excise(s, m) == Strip(SubSeq(s, 1, m[1] - 1) \o From(s, m[2] + 1))

\* parse_salary_query: <<residual text, floor, ceiling>>
parse_salary_query(q) ==
    IF q = "" THEN <<"", <<>>, <<>>>>
    ELSE LET s == Strip(q)
             greaterAt(t, i) == BoundAt(t, i, ">")
             lessAt(t, i) == BoundAt(t, i, "<")
             range_match == Search(RangeAt, s)
             greater_match == Search(greaterAt, s)
             less_match == Search(lessAt, s)
             single_match == Search(SingleAt, s)
             group(m) == SubSeq(s, m[3], m[2])
         IN  IF range_match # <<>>
             THEN LET low_vals == parse_money_numbers(SubSeq(s, range_match[1], range_match[3]))
                      high_vals == parse_money_numbers(SubSeq(s, range_match[4], range_match[2]))
                  IN  <<Excise(s, range_match), FirstOrNone(low_vals), FirstOrNone(high_vals)>>
             ELSE IF greater_match # <<>>
             THEN <<Excise(s, greater_match), FirstOrNone(parse_money_numbers(group(greater_match))), <<>>>>
             ELSE IF less_match # <<>>
             THEN <<Excise(s, less_match), <<>>, FirstOrNone(parse_money_numbers(group(less_match)))>>
             ELSE IF single_match # <<>>
             THEN <<Excise(s, single_match), FirstOrNone(parse_money_numbers(group(single_match))), <<>>>>
             ELSE <<s, <<>>, <<>>>>

(* ------------------------------------------------------------------ *)
(* Bounds and inputs of the model                                      *)
(* ------------------------------------------------------------------ *)

\* the date column of a row inserted without a date (NULL)
NoDate == 0

PER_PAGE_MAX == 100

BLACKLIST_LINKS == {"https://example.com/job/1"}

\* most rows the table holds in the model
MaxJobs == 3

\* longest batch handed to insert_many in the model
MaxBatch == 2

\* a row as a caller hands it to insert_many
InputRow(title, description, link, location, date) ==
    [job_title |-> title, job_description |-> description, link |-> link,
     location |-> location, date |-> date]

\* the rows callers insert in the model
Catalog ==
    { InputRow("Data Analyst", "Reports", "l1", "Madrid, ES", 2),
      InputRow("Support Engineer", "Tickets", "l2", "Berlin, DE", 2),
      InputRow("Remote Developer", "React", "l3", "San Francisco", 1),
      InputRow("Analyst", "Markets", "https://example.com/job/1", "New York", NoDate) }

\* rows of the one-row stores the country filter is probed on
ProbeRows ==
    { InputRow("Nurse", "Care", "p" \o loc, loc, 1) :
        loc \in {"Milwaukee", "London, UK", "Sweden", "Berlin, DE", "Madrid (ES)", "NL",
                 "Amsterdam", "Deutschland", "Europe", "Zurich, CH", "San Francisco",
                 "New York", "Remote"} }

\* country arguments of the calls made on those stores
ProbeCountries == {"UK", "DE", "ES", "NL", "EU", "HIGH_PAY"}

\* rows of the small stores the title clauses are probed on
QueryRows ==
    { InputRow("QA_Lead", "Testing", "q1", "Area_51", 1),
      InputRow("QAxLead", "Testing", "q2", "Areax51", 1),
      InputRow("Bonus 100%", "Pay", "q3", "Lima", 1),
      InputRow("Bonus 1000", "Pay", "q4", "Lima", 1),
      InputRow("Ops C\\D", "Infra", "q5", "Rome", 1),
      InputRow("Ops CD", "Infra", "q6", "Rome", 1),
      InputRow("Nurse", "Care", "q7", "Remote", 1),
      InputRow("Nurse", "Fully remote", "q8", "Oslo", 1),
      InputRow("Nurse", "Care", "q9", "Oslo", 1),
      InputRow("Python Programmer", "Scripts", "q10", "Oslo", 1),
      InputRow("Analyst", "Works with a software engineer", "q11", "Oslo", 1),
      InputRow("Python Tester", "Scripts", "q12", "Oslo", 1),
      InputRow("Front End Developer", "React", "q13", "Oslo", 1),
      InputRow("Senior Software Engineer", "Go", "q14", "Oslo", 1) }

\* the batches those stores are filled with: none, one row, the three nurses
QueryBatches ==
    {<<>>} \cup {<<r>> : r \in QueryRows}
    \cup {<< InputRow("Nurse", "Care", "q7", "Remote", 1),
             InputRow("Nurse", "Fully remote", "q8", "Oslo", 1),
             InputRow("Nurse", "Care", "q9", "Oslo", 1) >>}

\* title and country arguments of the calls made on those stores
QueryTitles ==
    {"", " ", "qa_lead", "100%", "c\\d", "remote", "remote nurse", "developer",
     "python developer"}

QueryCountries == {"", " ", "area_5"}

QueryArgs ==
    {<<t, "">> : t \in QueryTitles}
    \cup {<<t, c>> : t \in {"", " "}, c \in QueryCountries}
    \cup {<<"remote nurse", "area_5">>, <<"qa_lead", "area_5">>}

\* title values of the requests made on those stores: role words, and
\* every stored title as it was inserted
QueryRawTitles ==
    {"Programmer", "senior coder", "Python Developer", "frontend", "swe", "mle", "Nurse"}
    \cup {r.job_title : r \in QueryRows}

\* most rows of the stores the paging of /api/jobs is probed on
MaxStored == 12

\* the k-th row of those stores: links differ, every second row is in Nigeria
PageRow(k) ==
    InputRow("Clerk", "Files", "g" \o Char("abcdefghijklmnopqrstuvwxyz", k),
             IF k % 2 = 0 THEN "Lagos, NG" ELSE "Accra", 1 + (k % 3))

PageRows == {PageRow(k) : k \in 1..MaxStored}

\* query-string values of the requests made on those stores
PagedCountries == {"", "ng"}

PagedPageArgs == {0, 2, 3}

PagedPerPageArgs == {0, 10}

\* rows of the batches the link rule of insert_many is probed with: two
\* pairs of different rows with one link, the empty link among them
LinkRows ==
    { InputRow("Baker", "Bread", "k1", "Lyon", 1),
      InputRow("Head Baker", "Pastry", "k1", "Nice", 2),
      InputRow("Driver", "Vans", "k2", "Lyon", 1),
      InputRow("Porter", "Bags", "", "Lyon", 1),
      InputRow("Guard", "Doors", "", "Nice", NoDate) }

LinkBatches == UNION {[1..n -> LinkRows] : n \in 0..MaxBatch}

\* the alias names of COUNTRY_NORM
AliasNames == {COUNTRY_NORM[i][1] : i \in 1..Len(COUNTRY_NORM)}

\* arguments of the normalize_country calls: every alias name as declared
\* and in capitals, padded names, unknown codes, city and free texts
CountryTexts ==
    AliasNames \cup {Upper(a) : a \in AliasNames}
    \cup {"", " ", "xx", "Xx", "x1", "Deutschland", "  DE ", " germany", "berlin",
          "New York", "u.s.", "Zurich", "san francisco", "madrid", "HIGH_PAY",
          "great britain", "south america"}

\* arguments of the normalize_title calls: every key of TITLE_SYNONYMS and
\* queries around them
TitleQueries ==
    {TITLE_SYNONYMS[i][1] : i \in 1..Len(TITLE_SYNONYMS)}
    \cup {"", "Front-End SWE", "Senior  Coder", "C++ (backend)", "nurse", "ML/AI lead"}

\* arguments of the parse_salary_query calls
SalaryTexts ==
    {"", "nurse", "  nurse ", "80k-120k", ">100k", ">= 100k", "<=90k python", "<90k",
     "python 120k", "dev 120k-80k", ">50k <90k", "<90k >50k", "<90k 10-20", "5 >7",
     "web3 dev", "python 3 kotlin", "1.5k", "120K", "1\t2", "pay 1\t2k",
     "senior 1,200 - 1,500", "java 80 k", "3d artist", "5k-", "> k"}

\* every row a caller may insert
InputRows == Catalog \cup ProbeRows \cup QueryRows \cup PageRows

Dialects == {"sqlite", "pg"}

\* title and country arguments of direct Job.search / Job.count calls
Titles == {"", "analyst"}

Countries == {"", "ES", "EU", "HIGH_PAY", "madrid"}

Limits == {1, MaxJobs}

Offsets == {0, 1}

\* query-string values of /api/jobs requests; 0 is what an absent number and
\* an explicit 0 both come to
RawTitles == {"", "Analyst"}

RawCountries == {"", "berlin", "madrid", "eu", "HIGH_PAY"}

PageArgs == {-3, 0, 2}

PerPageArgs == {-5, 0, 500}

\* every <<title, country>> that reaches Job._where in the model: the direct
\* arguments and what /api/jobs derives from its query string
WhereArgs ==
    {<<t, c>> : t \in Titles \cup {normalize_title(parse_salary_query(Strip(rt))[1]) : rt \in RawTitles}
                       \cup {normalize_title(Strip(rt)) : rt \in RawTitles},
                c \in Countries \cup {normalize_country(Strip(rc)) : rc \in RawCountries}}
    \cup {<<"", c>> : c \in ProbeCountries}
    \cup QueryArgs
    \cup {<<"", normalize_country(Strip(rc))>> : rc \in PagedCountries}
    \cup {<<normalize_title(parse_salary_query(Strip(rt))[1]), "">> : rt \in QueryRawTitles}

(* ------------------------------------------------------------------ *)
(* Job._where: the WHERE text of both dialects and their parameters    *)
(* ------------------------------------------------------------------ *)

\* one predicate "<col> <op> <placeholder>" of a WHERE clause
Pred(col, op, ph) == [col |-> col, op |-> op, ph |-> ph]

\* n copies of x
Repeat(x, n) == [i \in 1..n |-> x]

\* what one "clauses.append / params.extend" group of _where contributes:
\* a parenthesised OR of predicates per dialect and the parameters of each
Part(clause_pg, clause_sqlite, params_pg, params_sqlite) ==
    [pg |-> clause_pg, sqlite |-> clause_sqlite,
     params_pg |-> params_pg, params_sqlite |-> params_sqlite]

specials == {"remote", "developer"}

\* dev_terms holding the queried word only
dev_terms_Developer == <<"developer">>

dev_terms == <<"developer", "programmer", "coder", "software developer", "software engineer">>

high_pay_cities == <<"new york", "san francisco", "zurich">>

TitleColumnsPg ==
    << Pred("job_title_norm", "ILIKE", "%s"),
       Pred("LOWER(job_title)", "LIKE", "%s"),
       Pred("LOWER(job_description)", "LIKE", "%s") >>

\* the sqlite title columns keeping ILIKE on job_title_norm
TitleColumnsSqlite_Ilike ==
    << Pred("job_title_norm", "ILIKE", "?"),
       Pred("LOWER(job_title)", "LIKE", "?"),
       Pred("LOWER(job_description)", "LIKE", "?") >>

TitleColumnsSqlite ==
    << Pred("job_title_norm", "LIKE", "?"),
       Pred("LOWER(job_title)", "LIKE", "?"),
       Pred("LOWER(job_description)", "LIKE", "?") >>

\* if core_query: ...
CorePart(core_query) ==
    LET like == "%" \o Job_escape_like(core_query) \o "%"
    IN  Part(TitleColumnsPg, TitleColumnsSqlite, <<like, like, like>>, <<like, like, like>>)

\* the remote clause reading the three title columns only
RemotePart_NoLocation ==
    LET remote_like == "%" \o Job_escape_like("remote") \o "%"
    IN  Part(TitleColumnsPg, TitleColumnsSqlite, Repeat(remote_like, 3), Repeat(remote_like, 3))

\* if remote_flag: ...
RemotePart ==
    LET remote_like == "%" \o Job_escape_like("remote") \o "%"
    IN  Part(Append(TitleColumnsPg, Pred("LOWER(location)", "LIKE", "%s")),
             Append(TitleColumnsSqlite, Pred("LOWER(location)", "LIKE", "?")),
             Repeat(remote_like, 4), Repeat(remote_like, 4))

\* if developer_flag: ...
DeveloperPart ==
    LET patterns == MapSeq(SubstringPattern, dev_terms)
        perPattern == FlattenSeqs([k \in 1..Len(patterns) |-> Repeat(patterns[k], 3)])
    IN  Part(FlattenSeqs(Repeat(TitleColumnsPg, Len(dev_terms))),
             FlattenSeqs(Repeat(TitleColumnsSqlite, Len(dev_terms))),
             perPattern, perPattern)

\* the title half of _where emitting the core clause for an empty core query too
TitleParts_AlwaysCore(title) ==
    IF title = "" THEN <<>>
    ELSE LET tokens == Split(Job_normalize_title(title))
             isCore(tok) == tok \notin specials
         IN  <<CorePart(Strip(Join(" ", SelectSeq(tokens, isCore))))>>
             \o (IF "remote" \in Range(tokens) THEN <<RemotePart>> ELSE <<>>)
             \o (IF "developer" \in Range(tokens) THEN <<DeveloperPart>> ELSE <<>>)

\* the title half of _where
TitleParts(title) ==
    IF title = "" THEN <<>>
    ELSE LET t_norm == Job_normalize_title(title) IN
         IF t_norm = "" THEN <<>>
         ELSE LET tokens == Split(t_norm)
                  isCore(tok) == tok \notin specials
                  remote_flag == "remote" \in Range(tokens)
                  developer_flag == "developer" \in Range(tokens)
                  core_query == Strip(Join(" ", SelectSeq(tokens, isCore)))
              IN  (IF core_query # "" THEN <<CorePart(core_query)>> ELSE <<>>)
                  \o (IF remote_flag THEN <<RemotePart>> ELSE <<>>)
                  \o (IF developer_flag THEN <<DeveloperPart>> ELSE <<>>)

\* CountryMatchers without the HIGH_PAY branch
CountryMatchers_NoHighPay(c_raw) ==
    LET upper == Upper(c_raw)
        isCode == Len(upper) = 2 /\ IsAlpha(upper)
    IN  IF upper = "EU" THEN Job_country_patterns(_EU_FILTER_CODES \cup {"EU"})
        ELSE IF upper = "CH" THEN Job_country_patterns({"CH"})
        ELSE IF isCode THEN Job_country_patterns({upper})
        ELSE <<<<"%" \o Job_escape_like(c_raw) \o "%">>, <<>>>>

\* <<patterns_like, equals_exact>> of the country half of _where
CountryMatchers(c_raw) ==
    LET upper == Upper(c_raw)
        isCode == Len(upper) = 2 /\ IsAlpha(upper)
    IN  IF upper = "HIGH_PAY"
        THEN <<MapSeq(SubstringPattern, high_pay_cities), high_pay_cities>>
        ELSE IF upper = "EU" THEN Job_country_patterns(_EU_FILTER_CODES \cup {"EU"})
        ELSE IF upper = "CH" THEN Job_country_patterns({"CH"})
        ELSE IF isCode THEN Job_country_patterns({upper})
        ELSE <<<<"%" \o Job_escape_like(c_raw) \o "%">>, <<>>>>

\* the country clause built from patterns_like and equals_exact: one LIKE per
\* pattern, then one '=' per exact value, and the parameters in that order
CountryClause(patterns_like, equals_exact) ==
    IF patterns_like = <<>> /\ equals_exact = <<>> THEN <<>>
    ELSE << Part(Repeat(Pred("LOWER(location)", "LIKE", "%s"), Len(patterns_like))
                   \o Repeat(Pred("LOWER(location)", "=", "%s"), Len(equals_exact)),
                 Repeat(Pred("LOWER(location)", "LIKE", "?"), Len(patterns_like))
                   \o Repeat(Pred("LOWER(location)", "=", "?"), Len(equals_exact)),
                 patterns_like \o MapSeq(Lower, equals_exact),
                 patterns_like \o MapSeq(Lower, equals_exact)) >>

\* the clause of the matchers m = <<patterns_like, equals_exact>>
ClauseOf(m) == CountryClause(m[1], m[2])

\* the country half of _where for the stripped, lowercased country c_raw
CountryPartsOf(c_raw) == IF c_raw = "" THEN <<>> ELSE ClauseOf(CountryMatchers(c_raw))

\* the country half of _where
CountryParts(country) == IF country = "" THEN <<>> ELSE CountryPartsOf(Lower(Strip(country)))

\* the clauses joined with OR
JoinClauses_Or == "OR"

\* how the clauses of a WHERE are joined
JoinClauses == "AND"

\* the two WHERE renderings and parameter tuples of a list of clause groups.
\* A WHERE is the sequence of its parenthesised clauses, empty for the empty
\* string ""
WhereOf(parts) ==
    [pg |-> [k \in 1..Len(parts) |-> parts[k].pg],
     sqlite |-> [k \in 1..Len(parts) |-> parts[k].sqlite],
     join |-> JoinClauses,
     params_sqlite |-> FlattenSeqs([k \in 1..Len(parts) |-> parts[k].params_sqlite]),
     params_pg |-> FlattenSeqs([k \in 1..Len(parts) |-> parts[k].params_pg])]

\* Job._where(title, country); None is the empty string
Job_where(title, country) == WhereOf(TitleParts(title) \o CountryParts(country))

\* Job._where depends on its arguments and the static tables only; it is
\* tabulated over the arguments of the model's calls
WhereTable == [q \in WhereArgs |-> Job_where(q[1], q[2])]

(* ------------------------------------------------------------------ *)
(* Job._order_by and the sqlite cursor                                 *)
(* ------------------------------------------------------------------ *)

\* _order_by returning RANDOM() for every country
Job_order_by_Random(country) == [kind |-> "random", whens |-> <<>>]

\* the ORDER BY of a search: kind and, for the CASE, its LIKE literals in
\* WHEN order (tier 0, 1, 2; ELSE 3); every kind but RANDOM() ends with
\* "(date IS NULL) ASC, date DESC, id DESC"
Job_order_by(country) ==
    LET code == Upper(Strip(country))
    IN  IF country = "" THEN [kind |-> "default", whens |-> <<>>]
        ELSE IF code = "EU" THEN [kind |-> "random", whens |-> <<>>]
        ELSE IF code = "HIGH_PAY"
             THEN [kind |-> "case",
                   whens |-> <<"%san francisco%", "%new york%", "%zurich%">>]
        ELSE [kind |-> "default", whens |-> <<>>]

\* _SQLiteCursor._transform_sql
TransformSql(sql) == Replace(sql, "%s", "?")

TransformPred(p) == [p EXCEPT !.ph = TransformSql(p.ph)]

TransformClause(clause) == MapSeq(TransformPred, clause)

\* _transform_sql over a whole statement: the replacement acts on the text,
\* so it reaches the placeholders and the quoted literals alike
TransformStatement(stmt) ==
    [stmt EXCEPT !.where = MapSeq(TransformClause, stmt.where),
                 !.order = [stmt.order EXCEPT !.whens = MapSeq(TransformSql, stmt.order.whens)],
                 !.tail = MapSeq(TransformSql, stmt.tail)]

\* the placeholder token each driver binds positionally
Placeholder(dialect) == IF dialect = "sqlite" THEN "?" ELSE "%s"

\* a statement handed to cur.execute: the WHERE w of the connected dialect,
\* an ORDER BY, the placeholders after it, and the parameters in order
Statement(w, order, tail, tail_params, dialect) ==
    [where |-> IF dialect = "sqlite" THEN w.sqlite ELSE w.pg,
     join |-> w.join,
     order |-> order,
     tail |-> tail,
     params |-> (IF dialect = "sqlite" THEN w.params_sqlite ELSE w.params_pg) \o tail_params]

\* the statement Job.search hands to cur.execute, and its parameters
SearchStatement(title, country, limit, offset, dialect) ==
    Statement(WhereTable[<<title, country>>], Job_order_by(country),
              <<"%s", "%s">>, <<limit, offset>>, dialect)

\* the statement Job.count hands to cur.execute
CountStatement(title, country, dialect) ==
    Statement(WhereTable[<<title, country>>], [kind |-> "none", whens |-> <<>>],
              <<>>, <<>>, dialect)

\* cur.execute: the sqlite cursor rewrites the text, the Postgres one does not
CursorStatement(stmt, dialect) == IF dialect = "sqlite" THEN TransformStatement(stmt) ELSE stmt

(* ------------------------------------------------------------------ *)
(* The store executing a statement over the Jobs table                 *)
(* ------------------------------------------------------------------ *)

\* the column expressions of the WHERE evaluated on a row
ColumnValues(row) ==
    ("job_title_norm" :> row.job_title_norm)
    @@ ("LOWER(job_title)" :> Lower(row.job_title))
    @@ ("LOWER(job_description)" :> Lower(row.job_description))
    @@ ("LOWER(location)" :> Lower(row.location))

\* sqlite's LIKE ignores ASCII case, Postgres' LIKE does not, ILIKE does
PredHolds(p, param, values, dialect) ==
    CASE p.op = "=" -> values[p.col] = param
      [] p.op = "LIKE" -> Like(param, values[p.col], dialect = "sqlite")
      [] p.op = "ILIKE" -> Like(param, values[p.col], TRUE)

RECURSIVE PlaceholdersBefore(_, _)
\* number of placeholders in the first k clauses of a WHERE
PlaceholdersBefore(where, k) ==
    IF k = 0 THEN 0 ELSE Len(where[k]) + PlaceholdersBefore(where, k - 1)

\* every placeholder token of the statement, left to right
PlaceholderTokens(stmt) ==
    FlattenSeqs([k \in 1..Len(stmt.where) |->
                    [j \in 1..Len(stmt.where[k]) |-> stmt.where[k][j].ph]]) \o stmt.tail

\* the driver accepts the statement: each placeholder is its own token, there
\* is one parameter per placeholder, and sqlite has no ILIKE operator
Executable(stmt, dialect) ==
    LET tokens == PlaceholderTokens(stmt)
    IN  /\ \A i \in 1..Len(tokens) : tokens[i] = Placeholder(dialect)
        /\ Len(tokens) = Len(stmt.params)
        /\ dialect = "sqlite" =>
              \A k \in 1..Len(stmt.where) : \A j \in 1..Len(stmt.where[k]) :
                  stmt.where[k][j].op # "ILIKE"

\* The Postgres driver scans the statement text for '%' markers when it is
\* given parameters, and the CASE literals of the HIGH_PAY order carry '%'
\* signs.  The source does not fix what the driver makes of them: the call
\* may raise or the literal may reach the server as written, and both
\* outcomes are kept.  The sqlite cursor has replaced its '%s' by then and
\* sqlite3 does not read '%'.
PercentInLiteral(stmt, dialect) ==
    /\ dialect = "pg"
    /\ \E i \in 1..Len(stmt.order.whens) : Contains(stmt.order.whens[i], "%")

\* the WHERE of the statement holds of the row, the i-th placeholder bound to
\* the i-th parameter
WhereHolds(stmt, row, dialect) ==
    LET values == ColumnValues(row)
        clauseHolds(k) ==
            LET before == PlaceholdersBefore(stmt.where, k - 1)
            IN  \E j \in 1..Len(stmt.where[k]) :
                    PredHolds(stmt.where[k][j], stmt.params[before + j], values, dialect)
    IN  IF stmt.join = "AND"
        THEN \A k \in 1..Len(stmt.where) : clauseHolds(k)
        ELSE stmt.where = <<>> \/ \E k \in 1..Len(stmt.where) : clauseHolds(k)

\* value of "CASE WHEN LOWER(location) LIKE <literal> THEN 0 ... ELSE 3 END";
\* without a CASE every row has the same tier
Tier(row, order, dialect) ==
    LET hits == {i \in 1..Len(order.whens) :
                    Like(order.whens[i], Lower(row.location), dialect = "sqlite")}
    IN  IF hits = {} THEN 3 ELSE (CHOOSE i \in hits : \A h \in hits : i <= h) - 1

\* a sorts before b under "<tier>, (date IS NULL) ASC, date DESC, id DESC"
Before(a, b, order, dialect) ==
    LET ta == Tier(a, order, dialect)
        tb == Tier(b, order, dialect)
        na == IF a.date = NoDate THEN 1 ELSE 0
        nb == IF b.date = NoDate THEN 1 ELSE 0
    IN  IF ta # tb THEN ta < tb
        ELSE IF na # nb THEN na < nb
        ELSE IF a.date # b.date THEN a.date > b.date
        ELSE a.id > b.id

RECURSIVE SortRows(_, _, _)
SortRows(rows, order, dialect) ==
    IF rows = {} THEN <<>>
    ELSE LET first == CHOOSE r \in rows : \A o \in rows \ {r} : Before(r, o, order, dialect)
         IN  <<first>> \o SortRows(rows \ {first}, order, dialect)

\* all arrangements of a set of rows
Arrangements(rows) ==
    {s \in [1..Cardinality(rows) -> rows] : \A i, j \in 1..Cardinality(rows) : s[i] = s[j] => i = j}

\* the orders the store may return the matching rows in
Orderings(rows, order, dialect) ==
    IF order.kind = "random" THEN Arrangements(rows) ELSE {SortRows(rows, order, dialect)}

\* a page that starts one row late
Page_SkipsOne(ordered, limit, offset) ==
    SubSeq(ordered, offset + 2, Min(offset + limit, Len(ordered)))

\* LIMIT limit OFFSET offset of an ordered result
Page(ordered, limit, offset) == SubSeq(ordered, offset + 1, Min(offset + limit, Len(ordered)))

\* the tuple insert_many builds for one input row, stored under an id
StoredRow(row, id) ==
    [id |-> id, job_title |-> row.job_title, job_description |-> row.job_description,
     link |-> row.link, job_title_norm |-> Job_normalize_title(row.job_title),
     location |-> row.location, date |-> row.date]

\* the input row a stored row came from
InputOf(r) == InputRow(r.job_title, r.job_description, r.link, r.location, r.date)

\* what the cursor of dialect d makes of a statement: whether the driver
\* accepts it, whether it may reject it, its ORDER BY as executed, and the
\* input rows its WHERE accepts
PlanOf(stmt, d) ==
    [ok |-> Executable(stmt, d), order |-> stmt.order,
     may_reject |-> PercentInLiteral(stmt, d),
     accepts |-> {r \in InputRows : WhereHolds(stmt, StoredRow(r, 0), d)}]

\* The statement of Job.search depends on the title, the country and the
\* dialect only (limit and offset are its two last parameters), and its
\* WHERE does not read the id of a row.  What the cursor makes of it is
\* tabulated once per dialect and <<title, country>>.
SearchPlan ==
    [d \in Dialects, q \in WhereArgs |->
        PlanOf(CursorStatement(SearchStatement(q[1], q[2], 0, 0, d), d), d)]

\* the same for the statement of Job.count
CountPlan ==
    [d \in Dialects, q \in WhereArgs |->
        PlanOf(CursorStatement(CountStatement(q[1], q[2], d), d), d)]

\* the rows of the table a plan's WHERE accepts
Matching(jobs, plan) == {r \in jobs : InputOf(r) \in plan.accepts}

\* the results cur.execute + fetchall may give under a plan
RowsUnder(plan, jobs, limit, offset, dialect) ==
    IF ~plan.ok THEN {[ok |-> FALSE, rows |-> <<>>]}
    ELSE (IF plan.may_reject THEN {[ok |-> FALSE, rows |-> <<>>]} ELSE {})
         \cup {[ok |-> TRUE, rows |-> Page(o, limit, offset)] :
                  o \in Orderings(Matching(jobs, plan), plan.order, dialect)}

\* the results of Job.search
SearchResults(jobs, title, country, limit, offset, dialect) ==
    RowsUnder(SearchPlan[dialect, <<title, country>>], jobs, limit, offset, dialect)

\* the result of cur.execute + fetchone under a plan
TotalUnder(plan, jobs) ==
    IF ~plan.ok THEN [ok |-> FALSE, total |-> 0]
    ELSE [ok |-> TRUE, total |-> Cardinality(Matching(jobs, plan))]

\* the result of Job.count
CountResult(jobs, title, country, dialect) ==
    TotalUnder(CountPlan[dialect, <<title, country>>], jobs)


(* ------------------------------------------------------------------ *)
(* The application: its tables, one backend, one call at a time        *)
(* ------------------------------------------------------------------ *)

VARIABLES
    jobs,       \* the rows of the Jobs table
    nextId,     \* the id the next inserted row receives
    backend,    \* "sqlite" or "pg": what get_db() connects to
    last,       \* the call in progress and its result; op = "none" when idle
    subscribers, \* the email column of the subscribers table, in insertion order
    window        \* /subscribe requests the limiter counted in the running minute and hour

vars == <<jobs, nextId, backend, last, subscribers, window>>

Idle ==
    [op |-> "none", title |-> "", country |-> "", limit |-> 0, offset |-> 0,
     ok |-> TRUE, rows |-> <<>>, total |-> 0, meta |-> <<>>, args |-> <<>>,
     out |-> "", status |-> 200]

TypeOK ==
    /\ backend \in Dialects
    /\ nextId \in Nat
    /\ \A r \in jobs : r.id \in 1..(nextId - 1)
    /\ subscribers \in Seq(STRING)
    /\ window.minute \in Nat /\ window.hour \in Nat
    /\ last.op \in {"none", "insert_many", "count", "search", "api_jobs", "index",
                  "api_salary_insights", "api_jobs_count", "page_walk", "subscribe",
                  "normalize_country", "normalize_title", "parse_salary_query"}

Init ==
    /\ jobs = {}
    /\ nextId = 1
    /\ backend \in Dialects
    /\ last = Idle
    /\ subscribers = <<>>
    /\ window = [minute |-> 0, hour |-> 0]

RECURSIVE InsertAll_Replace(_, _, _)
\* executemany of an insert that overwrites the row holding the link
InsertAll_Replace(table, id, batch) ==
    IF batch = <<>> THEN <<table, id>>
    ELSE IF \E r \in table : r.link = Head(batch).link
         THEN LET old == CHOOSE r \in table : r.link = Head(batch).link
              IN  InsertAll_Replace((table \ {old}) \cup {StoredRow(Head(batch), old.id)},
                                    id, Tail(batch))
         ELSE InsertAll_Replace(table \cup {StoredRow(Head(batch), id)}, id + 1, Tail(batch))

RECURSIVE InsertAll(_, _, _)
\* executemany of "INSERT ... ON CONFLICT (link) DO NOTHING": <<table, next id>>.
\* Ids grow with the insertions; the model reads nothing but their order.
InsertAll(table, id, batch) ==
    IF batch = <<>> THEN <<table, id>>
    ELSE IF \E r \in table : r.link = Head(batch).link
         THEN InsertAll(table, id, Tail(batch))
         ELSE InsertAll(table \cup {StoredRow(Head(batch), id)}, id + 1, Tail(batch))

Batches == UNION {[1..n -> Catalog] : n \in 1..MaxBatch}

\* Job.insert_many(rows)
InsertMany(batch) ==
    /\ last.op = "none"
    /\ LET done == InsertAll(jobs, nextId, batch)
       IN  /\ Cardinality(done[1]) <= MaxJobs
           /\ jobs' = done[1]
           /\ nextId' = done[2]
           /\ last' = [Idle EXCEPT !.op = "insert_many", !.total = done[2] - nextId,
                                    !.args = batch]
    /\ UNCHANGED <<backend, subscribers, window>>

\* Job.count(title, country)
JobCount(title, country) ==
    /\ last.op = "none"
    /\ \E res \in {CountResult(jobs, title, country, backend)} :
          last' = [Idle EXCEPT !.op = "count", !.title = title, !.country = country,
                               !.ok = res.ok, !.total = res.total]
    /\ UNCHANGED <<jobs, nextId, backend, subscribers, window>>

\* Job.search(title, country, limit, offset)
JobSearch(title, country, limit, offset) ==
    /\ last.op = "none"
    /\ \E res \in SearchResults(jobs, title, country, limit, offset, backend) :
          last' = [Idle EXCEPT !.op = "search", !.title = title, !.country = country,
                               !.limit = limit, !.offset = offset,
                               !.ok = res.ok, !.rows = res.rows]
    /\ UNCHANGED <<jobs, nextId, backend, subscribers, window>>

\* one element of the "items" list of /api/jobs; a null link is <<>>
Item(row) ==
    [id |-> row.id, location |-> row.location,
     link |-> IF row.link \in BLACKLIST_LINKS THEN <<>> ELSE <<row.link>>]

\* "meta" of the /api/jobs body
Meta(page, per_page, total, pages) ==
    [page |-> Max(1, page), per_page |-> per_page, total |-> total, pages |-> pages,
     has_prev |-> page > 1, has_next |-> page < pages]

\* the /api/jobs call with the body it answers
ApiAnswer(raw_title, raw_country, per_page, offset, ok, rows, meta) ==
    [Idle EXCEPT !.op = "api_jobs", !.title = raw_title, !.country = raw_country,
                 !.limit = per_page, !.offset = offset, !.ok = ok,
                 !.rows = MapSeq(Item, rows), !.total = meta.total, !.meta = meta]

\* try: total, pages, rows from Job.count and Job.search
\* except Exception: total = 0, pages = 1, rows = []
ApiResult(raw_title, raw_country, page, per_page, offset, counted, res) ==
    IF counted.ok /\ res.ok
    THEN ApiAnswer(raw_title, raw_country, per_page, offset, TRUE, res.rows,
                   Meta(page, per_page, counted.total,
                        (counted.total + per_page - 1) \div per_page))
    ELSE ApiAnswer(raw_title, raw_country, per_page, offset, FALSE, <<>>,
                   Meta(page, per_page, 0, 1))

\* page of the request, floored at 1
PageOf(page_arg) == IF page_arg < 1 THEN 1 ELSE page_arg

\* per_page without the PER_PAGE_MAX cap
PerPageOf_NoCap(per_page_arg) == Max(10, IF per_page_arg = 0 THEN 20 ELSE per_page_arg)

\* per_page of the request: 20 by default, clamped to 10..PER_PAGE_MAX
PerPageOf(per_page_arg) ==
    Max(10, Min(IF per_page_arg = 0 THEN 20 ELSE per_page_arg, PER_PAGE_MAX))

\* offset one page further than the request asks for
OffsetOf_NextPage(page, per_page) == Max(1, page) * per_page

\* offset of the first row of the page
OffsetOf(page, per_page) == (Max(1, page) - 1) * per_page

\* GET /api/jobs?title=..&country=..&page=..&per_page=..; an absent page or
\* per_page is 0.  Each local of the handler is bound once, in its order.
ApiJobs(title_arg, country_arg, page_arg, per_page_arg) ==
    /\ last.op = "none"
    /\ \E raw_title \in {Strip(title_arg)}, raw_country \in {Strip(country_arg)},
          page \in {PageOf(page_arg)}, per_page \in {PerPageOf(per_page_arg)} :
       \E title_q \in {normalize_title(parse_salary_query(raw_title)[1])},
          country_q \in {normalize_country(raw_country)},
          offset \in {OffsetOf(page, per_page)} :
       \E counted \in {CountResult(jobs, title_q, country_q, backend)},
          res \in SearchResults(jobs, title_q, country_q, per_page, offset, backend) :
          last' = [ApiResult(raw_title, raw_country, page, per_page, offset, counted, res)
                      EXCEPT !.args = <<page_arg, per_page_arg>>]
    /\ UNCHANGED <<jobs, nextId, backend, subscribers, window>>

\* the demo jobs of the landing page
DemoJobs ==
    [i \in 1..6 |->
        [id |-> <<"demo", i>>,
         location |-> <<"Remote / EU", "Berlin, DE", "Zurich, CH", "Barcelona, ES",
                        "Munich, DE", "Remote">>[i],
         link |-> <<"">>]]

\* url_for("index", title=.., country=.., page=..): the query string of the link
UrlFor(title_q, country_q, page) == [title |-> title_q, country |-> country_q, page |-> page]

\* "pagination" of the index page; pages if pages else 1; a null url is <<>>
Pagination(title_q, country_q, page, per_page, total, pages) ==
    [page |-> page, pages |-> IF pages # 0 THEN pages ELSE 1, total |-> total,
     per_page |-> per_page, has_prev |-> page > 1,
     has_next |-> page < (IF pages # 0 THEN pages ELSE 1),
     prev_url |-> IF page > 1 THEN <<UrlFor(title_q, country_q, page - 1)>> ELSE <<>>,
     next_url |-> IF page < (IF pages # 0 THEN pages ELSE 1)
                  THEN <<UrlFor(title_q, country_q, page + 1)>> ELSE <<>>]

\* the index call with the values it hands to the template
IndexAnswer(raw_title, raw_country, title_q, country_q, page, per_page, offset, ok, items, total, pages) ==
    [Idle EXCEPT !.op = "index", !.title = raw_title, !.country = raw_country,
                 !.limit = per_page, !.offset = offset, !.ok = ok, !.rows = items,
                 !.total = total, !.out = <<title_q, country_q>>,
                 !.meta = Pagination(title_q, country_q, page, per_page, total, pages)]

\* try: total, pages, rows; except Exception: 0, 1, []; then the items, and
\* the demo jobs when there is no filter and no item
IndexResult(raw_title, raw_country, title_q, country_q, page, per_page, offset, counted, res) ==
    LET ok == counted.ok /\ res.ok
        total == IF ok THEN counted.total ELSE 0
        pages == IF ok /\ total # 0 THEN (total + per_page - 1) \div per_page ELSE 1
        items == IF ok THEN MapSeq(Item, res.rows) ELSE <<>>
    IN  IF raw_title = "" /\ raw_country = "" /\ items = <<>>
        THEN IndexAnswer(raw_title, raw_country, title_q, country_q, 1, Len(DemoJobs), offset,
                         ok, DemoJobs, Len(DemoJobs), 1)
        ELSE IndexAnswer(raw_title, raw_country, title_q, country_q, page, per_page, offset,
                         ok, items, total, pages)

\* GET /?title=..&country=..&page=..&per_page=..
Index(title_arg, country_arg, page_arg, per_page_arg) ==
    /\ last.op = "none"
    /\ \E raw_title \in {Strip(title_arg)}, raw_country \in {Strip(country_arg)},
          page \in {PageOf(page_arg)}, per_page \in {PerPageOf(per_page_arg)} :
       \E title_q \in {normalize_title(parse_salary_query(raw_title)[1])},
          country_q \in {normalize_country(raw_country)},
          offset \in {OffsetOf(page, per_page)} :
       \E counted \in {CountResult(jobs, title_q, country_q, backend)},
          res \in SearchResults(jobs, title_q, country_q, per_page, offset, backend) :
          last' = [IndexResult(raw_title, raw_country, title_q, country_q, page, per_page,
                               offset, counted, res)
                      EXCEPT !.args = <<page_arg, per_page_arg>>]
    /\ UNCHANGED <<jobs, nextId, backend, subscribers, window>>

\* one element of the "items" list of /api/salary-insights
InsightItem(row) == [location |-> row.location, link |-> <<row.link>>]

\* GET /api/salary-insights?title=..&country=..; an exception of Job.search
\* reaches the 500 handler
ApiSalaryInsights(title_arg, country_arg) ==
    /\ last.op = "none"
    /\ \E raw_title \in {Strip(title_arg)}, raw_country \in {Strip(country_arg)} :
       \E title_q \in {normalize_title(raw_title)},
          country_q \in {normalize_country(raw_country)} :
       \E res \in SearchResults(jobs, title_q, country_q, 100, 0, backend) :
          last' = [Idle EXCEPT !.op = "api_salary_insights", !.title = raw_title,
                               !.country = raw_country, !.limit = 100, !.ok = res.ok,
                               !.rows = MapSeq(InsightItem, res.rows),
                               !.total = Len(res.rows), !.out = <<title_q, country_q>>,
                               !.status = IF res.ok THEN 200 ELSE 500]
    /\ UNCHANGED <<jobs, nextId, backend, subscribers, window>>

RECURSIVE WalkResults(_, _, _, _, _, _, _)
\* what the requests for the pages page..pages may return, one Job.search
\* each, the rows of the pages in the order of the requests
WalkResults(table, title, country, per_page, page, pages, dialect) ==
    IF page > pages THEN {[ok |-> TRUE, rows |-> <<>>]}
    ELSE {[ok |-> a.ok /\ b.ok, rows |-> a.rows \o b.rows] :
             a \in SearchResults(table, title, country, per_page, OffsetOf(page, per_page),
                                 dialect),
             b \in WalkResults(table, title, country, per_page, page + 1, pages, dialect)}

\* a client reading a result to its end: Job.count, then pages 1..pages of
\* Job.search with limit per_page and offset (page - 1) * per_page, while
\* no other call changes the table
PageWalk(title, country, per_page) ==
    /\ last.op = "none"
    /\ \E counted \in {CountResult(jobs, title, country, backend)} :
       \E pages \in {(counted.total + per_page - 1) \div per_page} :
       \E res \in WalkResults(jobs, title, country, per_page, 1, pages, backend) :
          last' = [Idle EXCEPT !.op = "page_walk", !.title = title, !.country = country,
                               !.limit = per_page, !.ok = counted.ok /\ res.ok,
                               !.total = counted.total, !.rows = res.rows,
                               !.args = <<pages>>]
    /\ UNCHANGED <<jobs, nextId, backend, subscribers, window>>

\* the caller takes the result; the application is idle again
Return ==
    /\ last.op # "none"
    /\ last' = Idle
    /\ UNCHANGED <<jobs, nextId, backend, subscribers, window>>

Next ==
    \/ \E batch \in Batches : InsertMany(batch)
    \/ \E t \in Titles, c \in Countries : JobCount(t, c)
    \/ \E t \in Titles, c \in Countries, l \in Limits, o \in Offsets : JobSearch(t, c, l, o)
    \/ \E t \in RawTitles, c \in RawCountries, p \in PageArgs, pp \in PerPageArgs :
          ApiJobs(t, c, p, pp)
    \/ \E t \in RawTitles, c \in RawCountries, p \in PageArgs, pp \in PerPageArgs :
          Index(t, c, p, pp)
    \/ \E t \in RawTitles, c \in RawCountries : ApiSalaryInsights(t, c)
    \/ Return

Spec == Init /\ [][Next]_vars

\* a store holding a single row, as one insert_many call on the empty table leaves it
InitProbe ==
    /\ \E r \in ProbeRows : jobs = InsertAll({}, 1, <<r>>)[1]
    /\ nextId = 2
    /\ backend \in Dialects
    /\ last = Idle
    /\ subscribers = <<>>
    /\ window = [minute |-> 0, hour |-> 0]

NextProbe ==
    \/ \E c \in ProbeCountries : JobCount("", c)
    \/ \E c \in ProbeCountries, l \in Limits : JobSearch("", c, l, 0)
    \/ Return

ProbeSpec == InitProbe /\ [][NextProbe]_vars

\* a store as one insert_many call of a probing batch leaves it
InitQuery ==
    /\ \E b \in QueryBatches : jobs = InsertAll({}, 1, b)[1] /\ nextId = InsertAll({}, 1, b)[2]
    /\ backend \in Dialects
    /\ last = Idle
    /\ subscribers = <<>>
    /\ window = [minute |-> 0, hour |-> 0]

NextQuery ==
    \/ \E a \in QueryArgs : JobCount(a[1], a[2])
    \/ \E a \in QueryArgs, l \in Limits : JobSearch(a[1], a[2], l, 0)
    \/ \E t \in QueryRawTitles : ApiJobs(t, "", 0, 0)
    \/ \E t \in QueryRawTitles : Index(t, "", 0, 0)
    \/ Return

QuerySpec == InitQuery /\ [][NextQuery]_vars

\* a store of the first n paging rows, as one insert_many call leaves it
InitPaged ==
    /\ \E n \in 0..MaxStored :
          \E done \in {InsertAll({}, 1, [k \in 1..n |-> PageRow(k)])} :
             jobs = done[1] /\ nextId = done[2]
    /\ backend \in Dialects
    /\ last = Idle
    /\ subscribers = <<>>
    /\ window = [minute |-> 0, hour |-> 0]

NextPaged ==
    \/ \E c \in PagedCountries, p \in PagedPageArgs, pp \in PagedPerPageArgs :
          ApiJobs("", c, p, pp)
    \/ Return

PagedSpec == InitPaged /\ [][NextPaged]_vars

\* the table after init_db, filled by insert_many calls only
NextLinks ==
    \/ \E batch \in LinkBatches : InsertMany(batch)
    \/ Return

LinkSpec == Init /\ [][NextLinks]_vars

\* normalize_country(q)
NormalizeCountry(q) ==
    /\ last.op = "none"
    /\ last' = [Idle EXCEPT !.op = "normalize_country", !.args = <<q>>,
                            !.out = normalize_country(q)]
    /\ UNCHANGED <<jobs, nextId, backend, subscribers, window>>

\* normalize_title(q)
NormalizeTitle(q) ==
    /\ last.op = "none"
    /\ last' = [Idle EXCEPT !.op = "normalize_title", !.args = <<q>>,
                            !.out = normalize_title(q)]
    /\ UNCHANGED <<jobs, nextId, backend, subscribers, window>>

\* parse_salary_query(q)
ParseSalaryQuery(q) ==
    /\ last.op = "none"
    /\ last' = [Idle EXCEPT !.op = "parse_salary_query", !.args = <<q>>,
                            !.out = parse_salary_query(q)]
    /\ UNCHANGED <<jobs, nextId, backend, subscribers, window>>

\* the query normalisers and the salary extractor called on their own
NextNorm ==
    \/ \E q \in CountryTexts : NormalizeCountry(q)
    \/ \E q \in TitleQueries : NormalizeTitle(q)
    \/ \E q \in SalaryTexts : ParseSalaryQuery(q)
    \/ Return

NormSpec == Init /\ [][NextNorm]_vars

\* /api/jobs in two steps, for requests served side by side: the handler up
\* to and including Job.count; the locals it holds are kept in last
ApiJobsCount(title_arg, country_arg, page_arg, per_page_arg) ==
    /\ last.op = "none"
    /\ \E raw_title \in {Strip(title_arg)}, raw_country \in {Strip(country_arg)},
          page \in {PageOf(page_arg)}, per_page \in {PerPageOf(per_page_arg)} :
       \E title_q \in {normalize_title(parse_salary_query(raw_title)[1])},
          country_q \in {normalize_country(raw_country)} :
       \E counted \in {CountResult(jobs, title_q, country_q, backend)} :
          last' = [Idle EXCEPT !.op = "api_jobs_count", !.title = raw_title,
                               !.country = raw_country, !.limit = per_page,
                               !.offset = OffsetOf(page, per_page), !.ok = counted.ok,
                               !.total = counted.total, !.out = <<title_q, country_q>>,
                               !.args = <<page_arg, per_page_arg>>]
    /\ UNCHANGED <<jobs, nextId, backend, subscribers, window>>

\* Job.insert_many of another request, committed while the handler is
\* between its two statements
InsertManyBetween(batch) ==
    /\ last.op = "api_jobs_count"
    /\ LET done == InsertAll(jobs, nextId, batch)
       IN  /\ Cardinality(done[1]) <= MaxJobs
           /\ jobs' = done[1]
           /\ nextId' = done[2]
    /\ UNCHANGED <<backend, last, subscribers, window>>

\* the rest of the handler: Job.search on the table as it is now, and the body
ApiJobsSearch ==
    /\ last.op = "api_jobs_count"
    /\ \E res \in SearchResults(jobs, last.out[1], last.out[2], last.limit, last.offset,
                                 backend) :
          last' = [ApiResult(last.title, last.country, PageOf(last.args[1]), last.limit,
                             last.offset, [ok |-> last.ok, total |-> last.total], res)
                      EXCEPT !.args = last.args]
    /\ UNCHANGED <<jobs, nextId, backend, subscribers, window>>

\* query-string values of the requests served side by side with inserts
RaceCountries == {"", "madrid"}

RacePageArgs == {0, 2}

NextRace ==
    \/ \E batch \in Batches : InsertMany(batch)
    \/ \E c \in RaceCountries, p \in RacePageArgs : ApiJobsCount("", c, p, 0)
    \/ \E batch \in Batches : InsertManyBetween(batch)
    \/ ApiJobsSearch
    \/ Return

RaceSpec == Init /\ [][NextRace]_vars

\* @limiter.limit("5/minute;50/hour")
SubscribePerMinute == 5

SubscribePerHour == 50

\* validate_email(email, check_deliverability=False).normalized of the
\* library: <<address>> for the addresses it accepts, which it returns as
\* they are, <<>> where it raises EmailNotValidError
validate_email(email) == IF Contains(email, "@") THEN <<email>> ELSE <<>>

\* int(value) of a decimal text; <<>> where it raises ValueError
ToInt(value) ==
    IF value # "" /\ \A i \in 1..Len(value) : IsDigit(Char(value, i))
    THEN <<DigitsValue(value)>> ELSE <<>>

\* Job.get_link(job_id): <<link.strip()>>, or <<>> for None
Job_get_link(table, job_id) ==
    LET value == Strip(job_id)
        rows == {r \in table : ToInt(value) = <<r.id>>}
    IN  IF value = "" \/ ToInt(value) = <<>> \/ rows = {} THEN <<>>
        ELSE <<Strip((CHOOSE r \in rows : TRUE).link)>>

\* insert_subscriber on a table without the unique constraint
insert_subscriber_NoUnique(table, email) == [status |-> "ok", table |-> Append(table, email)]

\* insert_subscriber(email): the INSERT, and the unique violation of the
\* email column answered as "duplicate"
insert_subscriber(table, email) ==
    IF \E i \in 1..Len(table) : table[i] = email
    THEN [status |-> "duplicate", table |-> table]
    ELSE [status |-> "ok", table |-> Append(table, email)]

\* the answer of /subscribe: HTTP status, body, and Location of a redirect
SubscribeAnswer(email, job_id, is_json, status, code, body, location) ==
    [Idle EXCEPT !.op = "subscribe", !.args = <<email, job_id, is_json>>, !.out = status,
                 !.status = code, !.meta = body, !.title = location]

\* the body and status the handler builds from job_link and status
SubscribeResult(email, job_id, is_json, job_link, status) ==
    IF job_link # <<>> /\ job_link[1] # ""
    THEN IF is_json
         THEN SubscribeAnswer(email, job_id, is_json, status, 200,
                              [status |-> <<status>>, error |-> <<>>, redirect |-> job_link], "")
         ELSE SubscribeAnswer(email, job_id, is_json, status, 302, <<>>, job_link[1])
    ELSE IF is_json
         THEN SubscribeAnswer(email, job_id, is_json, status, 200,
                              IF status = "ok"
                              THEN [status |-> <<"ok">>, error |-> <<>>, redirect |-> <<>>]
                              ELSE [status |-> <<>>, error |-> <<"duplicate">>, redirect |-> <<>>],
                              "")
         ELSE SubscribeAnswer(email, job_id, is_json, status, 302, <<>>, "/")

\* POST /subscribe with email and job_id, as JSON or as a form.  The limiter
\* counts the request first and answers 429 beyond 5 a minute or 50 an
\* hour; the counts stop at the limits, beyond which only "exceeded" is read.
Subscribe(email_arg, job_id_arg, is_json) ==
    /\ last.op = "none"
    /\ \E email \in {validate_email(Strip(email_arg))}, job_id_raw \in {Strip(job_id_arg)} :
          IF window.minute >= SubscribePerMinute \/ window.hour >= SubscribePerHour
          THEN /\ last' = SubscribeAnswer(email_arg, job_id_arg, is_json, "", 429, <<>>, "")
               /\ UNCHANGED <<subscribers, window>>
          ELSE /\ window' = [minute |-> window.minute + 1, hour |-> window.hour + 1]
               /\ IF email = <<>>
                  THEN /\ last' = IF is_json
                                  THEN SubscribeAnswer(email_arg, job_id_arg, is_json, "", 400,
                                                       [status |-> <<>>, error |-> <<"invalid_email">>,
                                                        redirect |-> <<>>], "")
                                  ELSE SubscribeAnswer(email_arg, job_id_arg, is_json, "", 302,
                                                       <<>>, "/")
                       /\ UNCHANGED subscribers
                  ELSE \E done \in {insert_subscriber(subscribers, email[1])} :
                          /\ subscribers' = done.table
                          /\ last' = SubscribeResult(email_arg, job_id_arg, is_json,
                                                     Job_get_link(jobs, job_id_raw), done.status)
    /\ UNCHANGED <<jobs, nextId, backend>>

\* the minute of the limiter's window ends
MinuteEnds ==
    /\ last.op = "none"
    /\ window.minute > 0
    /\ window' = [window EXCEPT !.minute = 0]
    /\ UNCHANGED <<jobs, nextId, backend, last, subscribers>>

\* the hour of the limiter's window ends, and the minute with it
HourEnds ==
    /\ last.op = "none"
    /\ window.hour > 0
    /\ window' = [minute |-> 0, hour |-> 0]
    /\ UNCHANGED <<jobs, nextId, backend, last, subscribers>>

\* rows of the one-row stores /subscribe is probed on: with and without a link
SubRows ==
    { InputRow("Baker", "Bread", "k1", "Lyon", 1),
      InputRow("Porter", "Bags", "", "Lyon", 1) }

SubEmails == {"a@x.io", "b@x.io", "nope"}

SubJobIds == {"", "1", "7", "x"}

InitSub ==
    /\ \E r \in SubRows : jobs = InsertAll({}, 1, <<r>>)[1]
    /\ nextId = 2
    /\ backend \in Dialects
    /\ last = Idle
    /\ subscribers = <<>>
    /\ window = [minute |-> 0, hour |-> 0]

NextSub ==
    \/ \E e \in SubEmails, j \in SubJobIds, is_json \in BOOLEAN : Subscribe(e, j, is_json)
    \/ MinuteEnds
    \/ HourEnds
    \/ Return

SubSpec == InitSub /\ [][NextSub]_vars

\* the table filled by insert_many calls and read page by page
NextWalk ==
    \/ \E batch \in Batches : InsertMany(batch)
    \/ \E t \in Titles, c \in Countries, pp \in Limits : PageWalk(t, c, pp)
    \/ Return

WalkSpec == Init /\ [][NextWalk]_vars

(* ------------------------------------------------------------------ *)
(* Properties                                                          *)
(* ------------------------------------------------------------------ *)

\* the backend the application is not connected to
OtherDialect == CHOOSE d \in Dialects : d # backend

Ids(rows) == [i \in 1..Len(rows) |-> rows[i].id]

\* the country argument as _where and _order_by compare it with EU and HIGH_PAY
PseudoCode(country) == Upper(Strip(country))

\* a before b under "null date last, date descending, id descending"
DefaultBefore(a, b) ==
    \/ a.date # NoDate /\ b.date = NoDate
    \/ a.date # NoDate /\ b.date # NoDate /\ a.date > b.date
    \/ a.date = b.date /\ a.id > b.id

\* the priority the HIGH_PAY order gives a location: San Francisco, New York,
\* Zurich, everything else
ClaimedTier(row) ==
    LET loc == Lower(row.location)
    IN  IF Contains(loc, "san francisco") THEN 0
        ELSE IF Contains(loc, "new york") THEN 1
        ELSE IF Contains(loc, "zurich") THEN 2
        ELSE 3

\* C1: over the same Jobs contents, whenever the sqlite cursor and the
\* Postgres cursor both return a result, Job.search returns the same ids in
\* the same order through both (for EU the same set of ids when the page
\* holds every match), and Job.count returns the same number
C1_DialectEquivalence ==
    /\ last.op = "search" /\ last.ok =>
          \A theirs \in SearchResults(jobs, last.title, last.country, last.limit,
                                      last.offset, OtherDialect) :
              theirs.ok =>
                  IF PseudoCode(last.country) = "EU"
                  THEN last.offset = 0 /\ last.limit >= Cardinality(jobs)
                          => Range(Ids(theirs.rows)) = Range(Ids(last.rows))
                  ELSE Ids(theirs.rows) = Ids(last.rows)
    /\ last.op = "count" =>
          CountResult(jobs, last.title, last.country, OtherDialect)
             = [ok |-> last.ok, total |-> last.total]

\* C2: the two WHERE renderings of Job._where have the same clauses and
\* predicates and differ only in the placeholder ('%s' / '?') and in ILIKE /
\* LIKE on job_title_norm; the two parameter lists are equal; each dialect
\* has one parameter per placeholder, a LIKE pattern at every LIKE
\* placeholder and a plain value at every '=' placeholder
C2_WhereRenderings ==
    last.op \in {"search", "count"} =>
        LET w == WhereTable[<<last.title, last.country>>]
            pg == FlattenSeqs(w.pg)
            sq == FlattenSeqs(w.sqlite)
        IN  /\ Len(w.pg) = Len(w.sqlite)
            /\ \A k \in 1..Len(w.pg) : Len(w.pg[k]) = Len(w.sqlite[k])
            /\ Len(pg) = Len(sq)
            /\ \A i \in 1..Len(pg) :
                  /\ pg[i].col = sq[i].col
                  /\ pg[i].ph = "%s"
                  /\ sq[i].ph = "?"
                  /\ IF pg[i].col = "job_title_norm"
                     THEN pg[i].op = "ILIKE" /\ sq[i].op = "LIKE"
                     ELSE pg[i].op = sq[i].op /\ pg[i].op \in {"LIKE", "="}
            /\ Len(w.params_sqlite) = Len(w.params_pg)
            /\ \A i \in 1..Len(w.params_pg) : w.params_sqlite[i] = w.params_pg[i]
            /\ Len(pg) = Len(w.params_pg)
            /\ Len(sq) = Len(w.params_sqlite)
            /\ \A i \in 1..Len(pg) : (pg[i].op = "=") <=> ~StartsWith(w.params_pg[i], "%")

\* a call whose WHERE has a title clause and LIKE and '=' country predicates
C2_Witness ==
    /\ last.op = "search"
    /\ last.title = "analyst"
    /\ last.country = "ES"
    /\ Len(WhereTable[<<last.title, last.country>>].pg) = 2
    /\ Len(WhereTable[<<last.title, last.country>>].params_sqlite) > 30

\* C3: a HIGH_PAY search returns San Francisco rows first, then New York
\* rows, then Zurich rows, then the others, each tier in the default order
C3_HighPayOrder ==
    last.op = "search" /\ last.ok /\ PseudoCode(last.country) = "HIGH_PAY" =>
        \A i, j \in 1..Len(last.rows) :
            i < j =>
                \/ ClaimedTier(last.rows[i]) < ClaimedTier(last.rows[j])
                \/ /\ ClaimedTier(last.rows[i]) = ClaimedTier(last.rows[j])
                   /\ DefaultBefore(last.rows[i], last.rows[j])

\* C4: with a title and a country, a row is returned or counted only if it
\* passes the title clauses alone and the country clause alone
C4_TitleAndCountry ==
    last.op \in {"search", "count"} /\ last.ok /\ last.title # "" /\ last.country # "" =>
        LET byTitle == Matching(jobs, CountPlan[backend, <<last.title, "">>])
            byCountry == Matching(jobs, CountPlan[backend, <<"", last.country>>])
        IN  /\ last.op = "search" => Range(last.rows) \subseteq (byTitle \cap byCountry)
            /\ last.op = "count" => last.total = Cardinality(byTitle \cap byCountry)

\* a title-and-country search that returns a row and leaves out a row that
\* passes the title clause only
C4_Witness ==
    /\ last.op = "search"
    /\ last.title # ""
    /\ last.country # ""
    /\ last.offset = 0
    /\ last.rows # <<>>
    /\ \E r \in Matching(jobs, CountPlan[backend, <<last.title, "">>]) : r \notin Range(last.rows)

\* the separators the claim allows before and after a code token
TokenBefore == {" ", "(", ",", "/", "-"}

TokenAfter == {" ", ")", ",", "/", "-"}

\* loc holds the two-letter text c as a token: a separator before it and a
\* separator or the end of the string after it
DelimitedToken(c, loc) ==
    \E i \in 2..(Len(loc) - 1) :
        /\ SubSeq(loc, i, i + 1) = c
        /\ Char(loc, i - 1) \in TokenBefore
        /\ i + 1 = Len(loc) \/ Char(loc, i + 2) \in TokenAfter

\* the alias and hint names of a code that are longer than the code
LongerNames(code) ==
    {n \in Range(KeysMapped(COUNTRY_NORM, {code}))
            \cup Range(KeysMapped(LOCATION_COUNTRY_HINTS, {code})) : Len(n) > 2}

IsPlainCode(country) ==
    LET c == Strip(country) IN Len(c) = 2 /\ IsAlpha(c) /\ Upper(c) # "EU"

\* C5: a search for a plain two-letter code returns a row only if its
\* lowercased location equals the code, holds the code as a separator-bounded
\* token, or holds one of the longer alias or hint names of the code; the
\* code never matches as a bare substring of a longer word
C5_CodeIsToken ==
    last.op = "search" /\ last.ok /\ last.title = "" /\ IsPlainCode(last.country) =>
        \A i \in 1..Len(last.rows) :
            LET loc == Lower(last.rows[i].location)
                c == Lower(Strip(last.country))
            IN  \/ loc = c
                \/ DelimitedToken(c, loc)
                \/ \E n \in LongerNames(Upper(c)) : Contains(loc, n)

\* the city names queried through /api/jobs
CityQueries == {"berlin", "madrid"}

\* C6: /api/jobs with a city name as country returns on its first page
\* exactly the rows whose lowercased location contains the lowercased query
C6_CityQuery ==
    last.op = "api_jobs" /\ last.title = "" /\ last.country \in CityQueries /\ last.offset = 0 =>
        Range(Ids(last.rows))
           = {r.id : r \in {x \in jobs : Contains(Lower(x.location), Lower(last.country))}}

\* C7: an EU search with offset 0 and a limit of at least the match count
\* returns every row the EU filter accepts exactly once and no other row
C7_EuSameSet ==
    last.op = "search" /\ last.ok /\ PseudoCode(last.country) = "EU" /\ last.offset = 0 =>
        LET matched == Matching(jobs, CountPlan[backend, <<last.title, last.country>>])
        IN  last.limit >= Cardinality(matched) =>
                /\ Len(last.rows) = Cardinality(matched)
                /\ Range(last.rows) = matched

\* an EU search that returns two rows in the reverse of the default order
C7_Witness ==
    /\ last.op = "search"
    /\ PseudoCode(last.country) = "EU"
    /\ last.offset = 0
    /\ Len(last.rows) = 2
    /\ DefaultBefore(last.rows[2], last.rows[1])

\* C8: a search for no country, a plain code or free text returns its rows
\* null dates last, then date descending, then id descending, and the store
\* contents and the arguments determine the returned sequence
C8_DefaultOrder ==
    last.op = "search" /\ last.ok /\ PseudoCode(last.country) \notin {"EU", "HIGH_PAY"} =>
        /\ \A i, j \in 1..Len(last.rows) : i < j => DefaultBefore(last.rows[i], last.rows[j])
        /\ SearchResults(jobs, last.title, last.country, last.limit, last.offset, backend)
              = {[ok |-> TRUE, rows |-> last.rows]}

\* a default-order search returning two rows of one date and then a row
\* without a date
C8_Witness ==
    /\ last.op = "search"
    /\ PseudoCode(last.country) \notin {"EU", "HIGH_PAY"}
    /\ Len(last.rows) = 3
    /\ last.rows[1].date = last.rows[2].date
    /\ last.rows[1].id > last.rows[2].id
    /\ last.rows[3].date = NoDate

\* the input row of r passes the country filter of the connected backend
Accepted(r, country) == InputOf(r) \in CountPlan[backend, <<"", country>>].accepts

\* the rows an EU search has to return, given the alias names that count
EuDue(names) ==
    {r \in jobs :
        \/ Accepted(r, "DE") \/ Accepted(r, "ES") \/ Accepted(r, "NL")
        \/ Contains(Lower(r.location), "eu")
        \/ \E n \in names : Contains(Lower(r.location), n)}

EuAliasNames == Range(KeysMapped(COUNTRY_NORM, {"DE", "ES", "NL", "EU"}))

\* a whole-table EU search
EuSearchDone ==
    /\ last.op = "search" /\ last.ok /\ last.title = "" /\ PseudoCode(last.country) = "EU"
    /\ last.offset = 0 /\ last.limit >= Cardinality(jobs)

\* C9 as claimed: an EU search returns every row the DE, ES or NL filter
\* accepts and every row whose lowercased location contains 'eu' or any
\* alias name of DE, ES, NL or EU
C9_EuUnionAnyAlias == EuSearchDone => EuDue(EuAliasNames) \subseteq Range(last.rows)

\* C9 amended: the same with the alias names of more than two characters
C9_EuUnion ==
    EuSearchDone => EuDue({n \in EuAliasNames : Len(n) > 2}) \subseteq Range(last.rows)

\* an EU search returning a row that the NL filter accepts
C9_Witness ==
    /\ EuSearchDone
    /\ \E i \in 1..Len(last.rows) : Accepted(last.rows[i], "NL")

\* C10: a HIGH_PAY search returns exactly the rows whose lowercased location
\* contains 'new york', 'san francisco' or 'zurich', and its country clause
\* binds nothing but these three patterns and three values
C10_HighPayFilter ==
    /\ last.op = "search" /\ last.ok /\ last.title = "" /\ PseudoCode(last.country) = "HIGH_PAY"
    /\ last.offset = 0 /\ last.limit >= Cardinality(jobs)
    => /\ Range(last.rows)
             = {r \in jobs : \E city \in {"new york", "san francisco", "zurich"} :
                                 Contains(Lower(r.location), city)}
       /\ WhereTable[<<"", last.country>>].params_pg
             = <<"%new york%", "%san francisco%", "%zurich%",
                 "new york", "san francisco", "zurich">>

\* a HIGH_PAY search returning a Zurich row
C10_Witness ==
    /\ last.op = "search"
    /\ PseudoCode(last.country) = "HIGH_PAY"
    /\ \E i \in 1..Len(last.rows) : last.rows[i].location = "Zurich, CH"

\* the tokens Job._where reads in a title argument
TitleTokens(title) == Split(Lower(Strip(title)))

\* the title argument without its 'remote' and 'developer' tokens
CoreText(title) ==
    LET plain(tok) == tok \notin {"remote", "developer"}
    IN  Join(" ", SelectSeq(TitleTokens(title), plain))

\* the three lowercased texts a title clause reads in a row
TitleTexts(r) == {r.job_title_norm, Lower(r.job_title), Lower(r.job_description)}

\* a country argument that is neither empty, a two-letter code nor a pseudo code
FreeTextCountry(country) ==
    LET c == Lower(Strip(country))
    IN  c # "" /\ ~(Len(c) = 2 /\ IsAlpha(c)) /\ c \notin {"eu", "high_pay"}

\* the row holds the core text of the title and the free text of the country
LiteralDue(r, title, country) ==
    /\ CoreText(title) # "" => \E x \in TitleTexts(r) : Contains(x, CoreText(title))
    /\ FreeTextCountry(country) => Contains(Lower(r.location), Lower(Strip(country)))

\* a search returned limit rows of the set due, or all of them when fewer
ReturnedOf(due) ==
    /\ Range(last.rows) \subseteq due
    /\ Cardinality(Range(last.rows)) = Len(last.rows)
    /\ Len(last.rows) = Min(last.limit, Cardinality(due))

\* a call whose title has no special token and whose country is empty or free text
LiteralCall ==
    /\ last.op \in {"count", "search"} /\ last.ok
    /\ Range(TitleTokens(last.title)) \cap {"remote", "developer"} = {}
    /\ Strip(last.country) = "" \/ FreeTextCountry(last.country)

\* C11: a core title query and a free-text country are matched literally:
\* their '%', '_' and backslash characters are no wildcards, so a count or a
\* search accepts exactly the rows whose texts contain them as substrings
\* (a search returns them up to its limit)
C11_LiteralMatch ==
    LiteralCall =>
        LET due == {r \in jobs : LiteralDue(r, last.title, last.country)}
        IN  /\ last.op = "count" => last.total = Cardinality(due)
            /\ last.op = "search" => ReturnedOf(due)

\* queries with '_', '%' and a backslash that reject the rows which only a
\* wildcard reading of these characters would accept
C11_Witness ==
    /\ last.op = "count" /\ last.ok /\ last.total = 0
    /\ \/ last.title = "qa_lead" /\ \E r \in jobs : r.job_title = "QAxLead"
       \/ last.title = "100%" /\ \E r \in jobs : r.job_title = "Bonus 1000"
       \/ last.title = "c\\d" /\ \E r \in jobs : r.job_title = "Ops CD"
       \/ last.country = "area_5" /\ \E r \in jobs : r.location = "Areax51"

\* the words of a title query that ask for developer roles
DevWords == {"developer", "programmer", "coder"}

\* a raw title query without its developer words
RestOf(raw) ==
    LET other(tok) == tok \notin DevWords
    IN  Join(" ", SelectSeq(TitleTokens(raw), other))

\* the row names a developer role in its title or its description
DevRole(r) ==
    \E term \in {"developer", "programmer", "coder", "software developer",
                  "software engineer"} :
        \E x \in TitleTexts(r) : Contains(x, term)

\* an /api/jobs call whose title has a developer word, no 'remote' and
\* other words that normalisation leaves as they are
DevCall ==
    /\ last.op = "api_jobs" /\ last.ok /\ last.country = ""
    /\ Range(TitleTokens(last.title)) \cap DevWords # {}
    /\ "remote" \notin Range(TitleTokens(last.title))
    /\ normalize_title(RestOf(last.title)) = RestOf(last.title)

\* C12: a title query with the token 'developer', 'programmer' or 'coder'
\* selects exactly the rows that name a developer role in job_title_norm,
\* job_title or job_description and hold the remaining words of the query;
\* the developer word itself is not searched for
C12_DeveloperFlag ==
    DevCall =>
        LET due == {r \in jobs :
                      /\ DevRole(r)
                      /\ RestOf(last.title) # "" =>
                            \E x \in TitleTexts(r) : Contains(x, RestOf(last.title))}
        IN  /\ last.total = Cardinality(due)
            /\ Range(Ids(last.rows)) = {r.id : r \in due}

\* 'Programmer' finds a row that only mentions a software engineer in its
\* description, and 'senior coder' finds the senior software engineer
C12_Witness ==
    /\ last.op = "api_jobs" /\ last.ok /\ last.total = 1
    /\ \/ last.title = "Programmer" /\ \E r \in jobs : r.job_title = "Analyst"
       \/ last.title = "senior coder" /\ \E r \in jobs : r.job_title = "Senior Software Engineer"

\* a call whose title has the token 'remote', no 'developer', and whose
\* country is empty or free text
RemoteCall ==
    /\ last.op \in {"count", "search"} /\ last.ok
    /\ "remote" \in Range(TitleTokens(last.title))
    /\ "developer" \notin Range(TitleTokens(last.title))
    /\ Strip(last.country) = "" \/ FreeTextCountry(last.country)

\* number of clauses a remote call is to emit: the remote clause, a core
\* clause when other words remain, a country clause when a country is given
RemoteClauses(title, country) ==
    1 + (IF CoreText(title) # "" THEN 1 ELSE 0) + (IF Strip(country) # "" THEN 1 ELSE 0)

\* C13: with the token 'remote' in the title, a row is accepted iff 'remote'
\* is a substring of job_title_norm, job_title, job_description or location
\* and the row passes the clauses of the remaining words and of the country;
\* 'remote' is not part of the core query, and alone it emits no core clause
C13_RemoteFlag ==
    RemoteCall =>
        LET due == {r \in jobs :
                      /\ \E x \in TitleTexts(r) \cup {Lower(r.location)} : Contains(x, "remote")
                      /\ LiteralDue(r, last.title, last.country)}
            where == WhereTable[<<last.title, last.country>>]
        IN  /\ last.op = "count" => last.total = Cardinality(due)
            /\ last.op = "search" => ReturnedOf(due)
            /\ Len(where.pg) = RemoteClauses(last.title, last.country)
            /\ Len(where.sqlite) = RemoteClauses(last.title, last.country)

\* the query 'remote' counts a row that has the word in its location only
C13_Witness ==
    /\ last.op = "count" /\ last.ok /\ last.title = "remote" /\ last.total = 1
    /\ \E r \in jobs : r.location = "Remote" /\ r.job_description = "Care"

\* number of placeholders of a rendered WHERE
Holes(clauses) == PlaceholdersBefore(clauses, Len(clauses))

\* a WHERE is empty or a conjunction of non-empty clauses, and binds one
\* parameter per placeholder
WellFormed(where) ==
    /\ Len(where.pg) = Len(where.sqlite)
    /\ \A k \in 1..Len(where.pg) : Len(where.pg[k]) >= 1 /\ Len(where.sqlite[k]) >= 1
    /\ Holes(where.pg) = Len(where.params_pg)
    /\ Holes(where.sqlite) = Len(where.params_sqlite)

\* C14: Job._where yields a well-formed WHERE for every title and country
\* of a call; for an empty or blank title and country it yields no clause
\* and no parameter, and Job.count() then succeeds with the number of rows
C14_WhereTotal ==
    last.op \in {"count", "search"} =>
        LET where == WhereTable[<<last.title, last.country>>]
        IN  /\ WellFormed(where)
            /\ Strip(last.title) = "" /\ Strip(last.country) = "" =>
                  /\ where.pg = <<>> /\ where.sqlite = <<>>
                  /\ where.params_pg = <<>> /\ where.params_sqlite = <<>>
                  /\ last.ok
                  /\ last.op = "count" => last.total = Cardinality(jobs)

\* a count for a blank title and a blank country over three rows gives 3
C14_Witness ==
    /\ last.op = "count" /\ last.title = " " /\ last.country = " "
    /\ last.total = 3 /\ Cardinality(jobs) = 3

\* C15: the page count of a successful /api/jobs answer is at least 1, also
\* when nothing matches, and for a positive total it is the least number of
\* pages of per_page items that hold total items
C15_PagesAtLeastOne ==
    last.op = "api_jobs" /\ last.ok =>
        /\ last.meta.pages >= 1
        /\ last.meta.total > 0 =>
              /\ (last.meta.pages - 1) * last.meta.per_page < last.meta.total
              /\ last.meta.total <= last.meta.pages * last.meta.per_page

Links(table) == {r.link : r \in table}

\* the row of position i is the first of its link in the batch
FirstOfLink(batch, i) == \A j \in 1..(i - 1) : batch[j].link # batch[i].link

\* what an insert_many step has to do with its batch (last'.args)
InsertStep ==
    LET batch == last'.args
        fresh == {i \in 1..Len(batch) :
                    batch[i].link \notin Links(jobs) /\ FirstOfLink(batch, i)}
    IN  /\ jobs \subseteq jobs'
        /\ {InputOf(r) : r \in jobs' \ jobs} = {batch[i] : i \in fresh}
        /\ \A r, s \in jobs' : r.link = s.link => r = s
        /\ last'.ok /\ last'.total = Cardinality(fresh)
        /\ last'.total = Cardinality(jobs') - Cardinality(jobs)
        /\ InsertAll(jobs', nextId', batch) = <<jobs', nextId'>>

\* C18: insert_many adds, without error, the rows of the batch whose link is
\* neither in the table nor earlier in the batch, leaves every stored row as
\* it is, keeps links unique, returns the number of rows it added, and
\* leaves a table on which the same batch adds nothing
C18_InsertByLink == [][last'.op = "insert_many" => InsertStep]_vars

\* a batch of a row whose link is stored with other contents and of a new
\* row: one row is added and the stored row is as it was
C18_Witness ==
    /\ last.op = "insert_many" /\ last.total = 1 /\ Len(last.args) = 2
    /\ last.args[1].link = "k1" /\ last.args[2].link = "k2"
    /\ \E r \in jobs : r.link = "k1" /\ InputOf(r) # last.args[1]
    /\ \E r \in jobs : InputOf(r) = last.args[2]

\* the least number of a non-empty set of numbers
Least(S) == CHOOSE i \in S : \A j \in S : i <= j

\* the result the resolution order gives for the input q
Resolved(q) ==
    LET t == Lower(Strip(q))
        exactAt == {i \in 1..Len(COUNTRY_NORM) : Lower(COUNTRY_NORM[i][1]) = t}
        insideAt == {i \in 1..Len(COUNTRY_NORM) : Contains(t, COUNTRY_NORM[i][1])}
    IN  IF q = "" THEN ""
        ELSE IF exactAt # {} THEN COUNTRY_NORM[Least(exactAt)][2]
        ELSE IF Len(t) = 2 /\ IsAlpha(t) THEN Upper(t)
        ELSE IF insideAt # {} THEN COUNTRY_NORM[Least(insideAt)][2]
        ELSE Strip(q)

\* C19: normalize_country resolves its input in a fixed order: the code of
\* the alias that equals the trimmed input up to case; else two letters in
\* capitals; else the code of the first declared alias inside the lowercased
\* input; else the trimmed input; '' for ''.  'Deutschland' and 'de' give 'DE',
\* 'xx' gives 'XX'
C19_CountryOrder ==
    last.op = "normalize_country" =>
        /\ last.out = Resolved(last.args[1])
        /\ last.args[1] \in {"Deutschland", "de"} => last.out = "DE"
        /\ last.args[1] = "xx" => last.out = "XX"

\* C20: normalize_title maps every key of TITLE_SYNONYMS to the value the
\* table gives it
C20_SynonymValue ==
    last.op = "normalize_title" =>
        \A i \in 1..Len(TITLE_SYNONYMS) :
            last.args[1] = TITLE_SYNONYMS[i][1] => last.out = TITLE_SYNONYMS[i][2]

\* None of the salary extractor
None == <<>>

\* the trimmed text has a match of the range, the lower bound, the upper
\* bound, the number pattern
HasRange(s) == \E i \in 1..Len(s) : RangeAt(s, i) # <<>>

HasLower(s) == \E i \in 1..Len(s) : BoundAt(s, i, ">") # <<>>

HasUpper(s) == \E i \in 1..Len(s) : BoundAt(s, i, "<") # <<>>

HasNumber(s) == \E i \in 1..Len(s) : IsDigit(Char(s, i))

\* results the rules give for inputs with several candidate matches
RuleExamples ==
    ("80k-120k" :> <<"", <<80000>>, <<120000>>>>)
    @@ (">100k" :> <<"", <<100000>>, None>>)
    @@ ("dev 120k-80k" :> <<"dev", <<120000>>, <<80000>>>>)
    @@ ("<=90k python" :> <<"python", None, <<90000>>>>)
    @@ ("python 120k" :> <<"python", <<120000>>, None>>)
    @@ (">50k <90k" :> <<"<90k", <<50000>>, None>>)
    @@ ("<90k >50k" :> <<"<90k", <<50000>>, None>>)
    @@ ("<90k 10-20" :> <<"<90k", <<10>>, <<20>>>>)
    @@ ("5 >7" :> <<"5", <<7>>, None>>)
    @@ ("  nurse " :> <<"nurse", None, None>>)

\* C21: parse_salary_query applies one rule, the first of range, lower
\* bound, upper bound, bare number that matches the trimmed input: a range
\* gives floor and ceiling (left and right number, unswapped), a lower bound
\* a floor only, an upper bound a ceiling only, a bare number a floor only,
\* no match the trimmed input with neither; the leftmost match is taken
C21_RuleOrder ==
    last.op = "parse_salary_query" /\ ~Contains(last.args[1], "\t") =>
        LET q == last.args[1]
            s == Strip(q)
            floor == last.out[2]
            ceiling == last.out[3]
        IN  /\ HasRange(s) => floor # None /\ ceiling # None
            /\ ~HasRange(s) /\ HasLower(s) => floor # None /\ ceiling = None
            /\ ~HasRange(s) /\ ~HasLower(s) /\ HasUpper(s) => floor = None /\ ceiling # None
            /\ ~HasRange(s) /\ ~HasLower(s) /\ ~HasUpper(s) /\ HasNumber(s) =>
                  floor # None /\ ceiling = None
            /\ ~HasNumber(s) => last.out = <<s, None, None>>
            /\ q \in DOMAIN RuleExamples => last.out = RuleExamples[q]

\* a range with the larger number on the left, returned unswapped
C21_Witness ==
    /\ last.op = "parse_salary_query" /\ last.args = <<"dev 120k-80k">>
    /\ last.out = <<"dev", <<120000>>, <<80000>>>>

\* a token of digits, with separators and at most a final 'k'
NumberToken(tok) ==
    /\ tok # "" /\ IsDigit(Char(tok, 1))
    /\ \A i \in 1..Len(tok) :
          \/ IsDigit(Char(tok, i)) \/ Char(tok, i) \in {",", "."}
          \/ i = Len(tok) /\ Lower(Char(tok, i)) = "k"

\* the sequence without its i-th element
Without(seq, i) == SubSeq(seq, 1, i - 1) \o SubSeq(seq, i + 1, Len(seq))

\* C22: when the bare-number rule decides, the number it takes is one whole
\* token of the input and the residual text is the input without that
\* token; when the input has no such token, nothing is taken
C22_StandaloneNumber ==
    /\ last.op = "parse_salary_query"
    /\ ~HasRange(Strip(last.args[1])) /\ ~HasLower(Strip(last.args[1]))
    /\ ~HasUpper(Strip(last.args[1]))
    => LET toks == Split(last.args[1])
           left == Split(last.out[1])
       IN  IF \E i \in 1..Len(toks) : NumberToken(toks[i])
           THEN \E i \in 1..Len(toks) : NumberToken(toks[i]) /\ left = Without(toks, i)
           ELSE left = toks /\ last.out[2] = None

\* a floor or a ceiling: None or a natural number
Amount(v) == v = None \/ (Len(v) = 1 /\ v[1] \in Nat)

\* C23: parse_salary_query returns, for every input, a text, a floor and a
\* ceiling that are None or a natural number; a matched number with a
\* character that is no digit after cleaning gives None
C23_SalaryTotal ==
    last.op = "parse_salary_query" =>
        /\ Len(last.out) = 3
        /\ Amount(last.out[2]) /\ Amount(last.out[3])
        /\ Contains(last.args[1], "\t") => last.out[2] = None /\ last.out[3] = None

\* a number holding a tab is matched, removed from the text and dropped
C23_Witness ==
    /\ last.op = "parse_salary_query" /\ last.args = <<"pay 1\t2k">>
    /\ last.out = <<"pay", None, None>>

\* the endpoints that run a job search
SearchEndpoints == {"index", "api_jobs", "api_salary_insights"}

\* C24: when Job.count or Job.search raises, the endpoint answers with a
\* successful response that shows no store result: total 0, one page, no rows
C24_SearchDegrades ==
    last.op \in SearchEndpoints /\ ~last.ok =>
        /\ last.status = 200
        /\ last.total = 0
        /\ last.rows = <<>>
        /\ last.op # "api_salary_insights" => last.meta.pages = 1

\* C30: no response that carries job links holds a link of BLACKLIST_LINKS
C30_BlacklistHidden ==
    last.op \in SearchEndpoints =>
        \A i \in 1..Len(last.rows) : \A l \in BLACKLIST_LINKS : last.rows[i].link # <<l>>

\* C27: normalize_title and normalize_country return their own outputs
\* unchanged, so that the title and the country a pagination link carries
\* select the same filter when the link is followed
C27_Idempotent ==
    /\ last.op = "normalize_title" => normalize_title(last.out) = last.out
    /\ last.op = "normalize_country" => normalize_country(last.out) = last.out

\* C29: a search through / or /api/jobs whose raw title is the title of a
\* stored row, as insert_many received it, returns that row
C29_StoredTitleFound ==
    last.op \in {"index", "api_jobs"} /\ last.ok =>
        \A r \in jobs : r.job_title = last.title =>
            \E i \in 1..Len(last.rows) : last.rows[i].id = r.id

\* C25: when the offset of the page is at or beyond the total Job.count
\* reported, the page query of the same request returns no row and no
\* error, whether or not an insert_many of another request ran in between
C25_PageBeyondCount ==
    last.op = "api_jobs" /\ last.offset >= last.meta.total =>
        last.ok /\ last.rows = <<>>

\* C28: on an unchanging store the pages 1..pages of a query, requested
\* with one per_page, hold every matching row exactly once
C28_PagesPartition ==
    last.op = "page_walk" /\ last.ok =>
        LET due == Matching(jobs, CountPlan[backend, <<last.title, last.country>>])
        IN  /\ Len(last.rows) = Cardinality(due)
            /\ Range(last.rows) = due

\* the step is a JSON /subscribe request with a valid email
JsonSubscribe ==
    /\ last'.op = "subscribe"
    /\ last'.args[3]
    /\ validate_email(Strip(last'.args[1])) # <<>>

\* the link of the job the request names, when it names one that has a link
LinkNamed(job_id) ==
    {r.link : r \in {x \in jobs : job_id = <<x.id>> /\ x.link # ""}}

\* what the claim requires of such a step: 'ok' and a new row for an email
\* not yet stored, 'duplicate' and no new row for a stored one, HTTP 200,
\* one row per email, and the redirect whenever the job has a link
SubscribeStep ==
    LET email == Strip(last'.args[1])
        stored == \E i \in 1..Len(subscribers) : subscribers[i] = email
        links == LinkNamed(ToInt(Strip(last'.args[2])))
    IN  /\ last'.status = 200
        /\ last'.out = IF stored THEN "duplicate" ELSE "ok"
        /\ subscribers' = IF stored THEN subscribers ELSE Append(subscribers, email)
        /\ \A i, j \in 1..Len(subscribers') : subscribers'[i] = subscribers'[j] => i = j
        /\ links # {} => /\ last'.meta.redirect \in {<<l>> : l \in links}
                         /\ last'.meta.status = <<last'.out>>
        /\ links = {} => /\ last'.meta.redirect = <<>>
                         /\ IF stored THEN last'.meta.error = <<"duplicate">>
                            ELSE last'.meta.status = <<"ok">>

====
